---- MODULE Spec2Model ----
(***************************************************************************)
(* A model of the ubus client library (jbit/ubus-rs): the blob codec       *)
(* (src/src/blob.rs), the blob-message layer (src/src/blobmsg.rs), the     *)
(* message framing (src/src/message.rs) and the connection driver          *)
(* (src/src/connection.rs).                                                *)
(*                                                                         *)
(* Bytes are naturals 0..255, byte slices are sequences, and every         *)
(* function of the source that can return Err or panic is an operator      *)
(* whose result is a record with kind "ok", "err" or "panic".  The model   *)
(* is of a release build: invalid_data_panic! (src/src/lib.rs:60) only     *)
(* panics under cfg!(debug_assertions), see DebugAssertions below.         *)
(***************************************************************************)
EXTENDS Integers, Sequences, FiniteSets, TLC

(***************************************************************************)
(* Results and options                                                     *)
(***************************************************************************)
Ok(v) == [kind |-> "ok", val |-> v]
\* Error::InvalidData(msg), src/src/lib.rs:96
InvalidData(m) == [kind |-> "err", err |-> "InvalidData", msg |-> m]
\* Error::IO(e): the transport's own error, src/src/lib.rs:95
IOErr == [kind |-> "err", err |-> "IO", msg |-> "io"]
\* Error::Status(code), src/src/lib.rs:97
StatusErr(c) == [kind |-> "err", err |-> "Status", code |-> c]
\* a Rust panic (unwrap of None/Err, slice index out of range, panic!())
Panic(m) == [kind |-> "panic", msg |-> m]

\* Option<T>: None is the empty sequence, Some(x) the one-element sequence
None == <<>>
Some(x) == <<x>>

\* cfg!(debug_assertions): FALSE in a release build
DebugAssertions == FALSE

\* valid_data!(cond, msg) failing: panic in a debug build, Err otherwise
invalid_data(m) == IF DebugAssertions THEN Panic(m) ELSE InvalidData(m)

(***************************************************************************)
(* Byte helpers                                                            *)
(***************************************************************************)
Pow2(n) == 2^n

\* u16::from_be_bytes / BEu16 read
BE16(b) == b[1] * 256 + b[2]
\* A 32-bit word is held as the integer with the same bits in two's complement
\* (integers here are 32-bit): a u32 at or above 2^31 is held as u32 - 2^32.
\* u32::from_be_bytes, i32::from_be_bytes / BEu32 read
BE32(b) == (IF b[1] >= 128 THEN b[1] - 256 ELSE b[1]) * 16777216 + (b[2] * 256 + b[3]) * 256 + b[4]
\* u32::to_be_bytes / BEu32 store
ToBE32(v) == << (v \div 16777216) % 256, (v \div 65536) % 256, (v \div 256) % 256, v % 256 >>
\* the low 31 bits of a word
Low31(w) == IF w < 0 THEN (w + 2147483647) + 1 ELSE w
\* u16 big-endian store
ToBE16(v) == << (v \div 256) % 256, v % 256 >>

\* &s[from..] with 0-based from (from <= len)
Drop(s, n) == SubSeq(s, n + 1, Len(s))
\* &s[..to] with 0-based exclusive to (to <= len)
Take(s, n) == SubSeq(s, 1, n)
\* n zero bytes
Zeros(n) == [i \in 1..n |-> 0]

\* core::str::from_utf8 succeeds (well-formed UTF-8, as the standard library decides it)
RECURSIVE IsUtf8(_)
IsUtf8(s) ==
  IF s = <<>> THEN TRUE
  ELSE LET b == s[1]
           n == Len(s)
           Cont(i) == i <= n /\ s[i] >= 128 /\ s[i] <= 191
       IN  IF b < 128 THEN IsUtf8(Drop(s, 1))
           ELSE IF b >= 194 /\ b <= 223 THEN Cont(2) /\ IsUtf8(Drop(s, 2))
           ELSE IF b = 224 THEN n >= 2 /\ s[2] >= 160 /\ s[2] <= 191 /\ Cont(3) /\ IsUtf8(Drop(s, 3))
           ELSE IF b = 237 THEN n >= 2 /\ s[2] >= 128 /\ s[2] <= 159 /\ Cont(3) /\ IsUtf8(Drop(s, 3))
           ELSE IF b >= 225 /\ b <= 239 THEN Cont(2) /\ Cont(3) /\ IsUtf8(Drop(s, 3))
           ELSE IF b = 240 THEN n >= 2 /\ s[2] >= 144 /\ s[2] <= 191 /\ Cont(3) /\ Cont(4) /\ IsUtf8(Drop(s, 4))
           ELSE IF b >= 241 /\ b <= 243 THEN Cont(2) /\ Cont(3) /\ Cont(4) /\ IsUtf8(Drop(s, 4))
           ELSE IF b = 244 THEN n >= 2 /\ s[2] >= 128 /\ s[2] <= 143 /\ Cont(3) /\ Cont(4) /\ IsUtf8(Drop(s, 4))
           ELSE FALSE

(***************************************************************************)
(* BlobTag, src/src/blob.rs:8-67.  A tag is its 32-bit word.               *)
(***************************************************************************)
TAG_SIZE == 4
ID_MASK == 127
ID_SHIFT == 24
LEN_MASK == 16777215
\* 1 << 31, as a 32-bit word
EXTENDED_BIT == -2147483647 - 1
ALIGNMENT == 4

BlobTag_from_bytes(b) == BE32(b)
BlobTag_to_bytes(t) == ToBE32(t)
tag_id(t) == (Low31(t) \div Pow2(ID_SHIFT)) % (ID_MASK + 1)
tag_size(t) == Low31(t) % (LEN_MASK + 1)
\* ALIGNMENT.wrapping_sub(size) & (ALIGNMENT - 1)
align_pad(n) == (ALIGNMENT - (n % ALIGNMENT)) % ALIGNMENT
\* padding as the remainder of the size, not what is missing to the next multiple
padding_remainder(t) == tag_size(t) % ALIGNMENT

padding(t) == align_pad(tag_size(t))
next_tag(t) == tag_size(t) + padding(t)
inner_len(t) == IF tag_size(t) >= TAG_SIZE THEN tag_size(t) - TAG_SIZE ELSE 0
is_extended(t) == t < 0
is_valid(t) == IF tag_size(t) >= TAG_SIZE THEN Ok(TRUE) ELSE invalid_data("Tag size smaller than tag")

\* BlobTag::new without its validity test
BlobTag_new_unchecked(id, len) == Ok((len % (LEN_MASK + 1)) + (id % (ID_MASK + 1)) * Pow2(ID_SHIFT))

\* BlobTag::new; id is a u32 word, negative when at or above 2^31
BlobTag_new(id, len) ==
  IF id > ID_MASK \/ id < 0 \/ len < TAG_SIZE \/ len > LEN_MASK
  THEN InvalidData("Invalid TAG construction")
  ELSE Ok((len % (LEN_MASK + 1)) + (id % (ID_MASK + 1)) * Pow2(ID_SHIFT))

(***************************************************************************)
(* Blob, src/src/blob.rs:133-232                                           *)
(***************************************************************************)
\* Blob::from_tag_and_data: the value, when ok, is [tag, data, name]
from_tag_and_data(tag, data0) ==
  IF is_valid(tag).kind # "ok" THEN is_valid(tag)
  ELSE IF ~(Len(data0) >= inner_len(tag)) THEN invalid_data("Blob too short")
  ELSE
    LET data == Take(data0, inner_len(tag)) IN
    IF ~is_extended(tag) THEN Ok([tag |-> tag, data |-> data, name |-> None])
    ELSE IF Len(data) < 2 THEN Panic("split_at name length")
    ELSE
      LET ext_len == BE16(Take(data, 2))
          data1 == Drop(data, 2)
      IN
      IF ext_len > Len(data1) THEN Panic("split_at name")
      ELSE
        LET ext_bytes == Take(data1, ext_len)
            data2 == Drop(data1, ext_len)
        IN
        IF ~IsUtf8(ext_bytes) THEN Panic("name not UTF-8")
        ELSE IF Len(data2) < 1 THEN Panic("split_at terminator")
        ELSE IF data2[1] # 0 THEN invalid_data("No extended name nul terminator")
        ELSE
          LET data3 == Drop(data2, 1)
              pad == align_pad(2 + ext_len + 1)
          IN
          IF pad > Len(data3) THEN Panic("name padding")
          ELSE Ok([tag |-> tag, data |-> Drop(data3, pad), name |-> Some(ext_bytes)])

\* Blob::from_bytes
Blob_from_bytes(data) ==
  IF ~(Len(data) >= TAG_SIZE) THEN invalid_data("Blob too short")
  ELSE from_tag_and_data(BlobTag_from_bytes(Take(data, TAG_SIZE)), Drop(data, TAG_SIZE))

\* <$ty>::from_be_bytes for a 1-, 2-, 4- or 8-byte integer.  A 32-bit value is
\* the word (see BE32); a 64-bit value is the pair of its high and low words.
from_be_bytes(b, signed) ==
  CASE Len(b) = 1 -> IF signed /\ b[1] >= 128 THEN b[1] - 256 ELSE b[1]
    [] Len(b) = 2 -> IF signed /\ b[1] >= 128 THEN BE16(b) - 65536 ELSE BE16(b)
    [] Len(b) = 4 -> BE32(b)
    [] Len(b) = 8 -> <<BE32(SubSeq(b, 1, 4)), BE32(SubSeq(b, 5, 8))>>

\* try_into_number!: self.data[..size] then from_be_bytes
try_into_number(blob, size, signed) ==
  IF Len(blob.data) < size THEN Panic("slice index")
  ELSE Ok(from_be_bytes(Take(blob.data, size), signed))

\* TryInto<bool>
nonzero(r) == IF r.kind = "ok" THEN Ok(r.val # 0) ELSE r
try_into_bool(blob) == nonzero(try_into_number(blob, 1, FALSE))

\* TryInto<&str>: strip one trailing NUL, then validate UTF-8
try_into_str(blob) ==
  LET d == blob.data
      s == IF d # <<>> /\ d[Len(d)] = 0 THEN Take(d, Len(d) - 1) ELSE d
  IN  IF IsUtf8(s) THEN Ok(s) ELSE InvalidData("Blob not valid UTF-8")

\* Result::unwrap
unwrap(r) == IF r.kind = "ok" THEN r ELSE Panic("unwrap")

(***************************************************************************)
(* MessageAttr, src/src/message.rs:25-40, 174-210                          *)
(***************************************************************************)
ATTR_STATUS == 1
ATTR_OBJPATH == 2
ATTR_OBJID == 3
ATTR_METHOD == 4
ATTR_OBJTYPE == 5
ATTR_SIGNATURE == 6
ATTR_DATA == 7
ATTR_TARGET == 8
ATTR_ACTIVE == 9
ATTR_NO_REPLY == 10
ATTR_SUBSCRIBERS == 11
ATTR_USER == 12
ATTR_GROUP == 13

Attr(t, v) == [t |-> t, val |-> v]

\* the variant t around an unwrapped conversion
tagged(t, r) == IF r.kind = "ok" THEN Ok(Attr(t, r.val)) ELSE r

\* impl From<Blob> for MessageAttr: every arm unwraps its conversion
MessageAttr_from(blob) ==
  LET id == tag_id(blob.tag)
      num(t, signed) == tagged(t, unwrap(try_into_number(blob, 4, signed)))
      str(t) == tagged(t, unwrap(try_into_str(blob)))
      bool(t) == tagged(t, unwrap(try_into_bool(blob)))
  IN  CASE id = ATTR_STATUS -> num("Status", TRUE)
        [] id = ATTR_OBJPATH -> str("ObjPath")
        [] id = ATTR_OBJID -> num("ObjId", FALSE)
        [] id = ATTR_METHOD -> str("Method")
        [] id = ATTR_OBJTYPE -> num("ObjType", FALSE)
        [] id = ATTR_SIGNATURE -> Ok(Attr("Signature", blob.data))
        [] id = ATTR_DATA -> Ok(Attr("Data", blob.data))
        [] id = ATTR_TARGET -> num("Target", FALSE)
        [] id = ATTR_ACTIVE -> bool("Active")
        [] id = ATTR_NO_REPLY -> bool("NoReply")
        [] id = ATTR_SUBSCRIBERS -> Ok(Attr("Subscribers", blob.data))
        [] id = ATTR_USER -> str("User")
        [] id = ATTR_GROUP -> str("Group")
        [] OTHER -> Ok(Attr("Unknown", <<id, blob.data>>))

(***************************************************************************)
(* BlobIter, src/src/blob.rs:234-261.  The iterator is its remaining       *)
(* slice; next gives [kind, item, rest] with kind "some", "none", "panic". *)
(***************************************************************************)
IterNone == [kind |-> "none"]
IterPanic == [kind |-> "panic"]
IterSome(x, rest) == [kind |-> "some", item |-> x, rest |-> rest]

\* advance by the blob's size without its padding
advance_unpadded(data, r) ==
  IF r.kind = "panic" THEN IterPanic
  ELSE IF r.kind = "err" THEN IterNone
  ELSE IF tag_size(r.val.tag) > Len(data) THEN IterPanic
  ELSE IterSome(r.val, Drop(data, tag_size(r.val.tag)))

\* lines 252-258 once Blob::from_bytes has given r: advance past the blob
advance(data, r) ==
  IF r.kind = "panic" THEN IterPanic
  ELSE IF r.kind = "err" THEN IterNone
  ELSE IF next_tag(r.val.tag) > Len(data) THEN IterPanic
  ELSE IterSome(r.val, Drop(data, next_tag(r.val.tag)))

\* BlobIter<Blob>::next before the conversion to T
BlobIter_next_blob(data) ==
  IF data = <<>> THEN IterNone ELSE advance(data, Blob_from_bytes(data))

\* the conversion blob.try_into() of line 255, whose From impl may panic
converted(rest, r) == IF r.kind = "ok" THEN IterSome(r.val, rest) ELSE IterPanic

\* BlobIter<MessageAttr>::next
attr_of(n) == IF n.kind # "some" THEN n ELSE converted(n.rest, MessageAttr_from(n.item))
BlobIter_next_attr(data) == attr_of(BlobIter_next_blob(data))

(***************************************************************************)
(* BlobMsg, src/src/blobmsg.rs:5-52                                        *)
(***************************************************************************)
BLOBMSG_ARRAY == 1
BLOBMSG_TABLE == 2
BLOBMSG_STRING == 3
BLOBMSG_INT64 == 4
BLOBMSG_INT32 == 5
BLOBMSG_INT16 == 6
BLOBMSG_INT8 == 7
BLOBMSG_DOUBLE == 8

\* impl From<Blob> for BlobMsg: value is [name, data |-> [t, val]]
BlobMsg_from(blob) ==
  LET id == tag_id(blob.tag)
      mk(d) == Ok([name |-> blob.name, data |-> d])
      named(r) == IF r.kind = "ok" THEN mk(r.val) ELSE r
      num(t, w) == named(tagged(t, unwrap(try_into_number(blob, w, TRUE))))
  IN  CASE id = BLOBMSG_ARRAY -> mk(Attr("Array", blob.data))
        [] id = BLOBMSG_TABLE -> mk(Attr("Table", blob.data))
        [] id = BLOBMSG_STRING -> named(tagged("String", unwrap(try_into_str(blob))))
        [] id = BLOBMSG_INT64 -> num("Int64", 8)
        [] id = BLOBMSG_INT32 -> num("Int32", 4)
        [] id = BLOBMSG_INT16 -> num("Int16", 2)
        [] id = BLOBMSG_INT8 -> num("Int8", 1)
        [] OTHER -> mk(Attr("Unknown", <<id, blob.data>>))

\* BlobMsgIter::next (and BlobIter<BlobMsg>::next): inner.next().map(BlobMsg::from)
blobmsg_of(n) == IF n.kind # "some" THEN n ELSE converted(n.rest, BlobMsg_from(n.item))
BlobMsgIter_next(data) == blobmsg_of(BlobIter_next_blob(data))

(***************************************************************************)
(* MessageHeader, src/src/message.rs:6-62                                  *)
(***************************************************************************)
VERSION_CURRENT == 0
HELLO == 0
STATUS == 1
DATA == 2
PING == 3
LOOKUP == 4
INVOKE == 5

HEADER_SIZE == 8

Header(v, m, s, p) == [version |-> v, message |-> m, sequence |-> s, peer |-> p]
\* MessageHeader::from_bytes: repr(C) { u8, u8, BEu16, BEu32 }
MessageHeader_from_bytes(b) == Header(b[1], b[2], BE16(SubSeq(b, 3, 4)), BE32(SubSeq(b, 5, 8)))
\* MessageHeader::to_bytes
MessageHeader_to_bytes(h) == <<h.version, h.message>> \o ToBE16(h.sequence) \o ToBE32(h.peer)

(***************************************************************************)
(* Transport, src/src/lib.rs:130-134 and src/src/stdio.rs:6-14.  The       *)
(* inbound side is the byte stream not yet read; get(n) takes exactly n    *)
(* bytes, blocks while fewer are there, and fails once the peer has closed.*)
(***************************************************************************)
\* IO::get on a stream holding rx: ok with the bytes, or short (block / EOF)
io_get(rx, n) ==
  IF Len(rx) >= n THEN [kind |-> "ok", val |-> Take(rx, n), rest |-> Drop(rx, n)]
  ELSE [kind |-> "short"]

\* Connection::buffer, src/src/connection.rs:25
BUFFER_LEN == 65536

(***************************************************************************)
(* Message::from_io, src/src/message.rs:71-95.  The result is              *)
(* [res, rest, nread, gets, short]: the Result (or panic), the stream left,*)
(* the bytes consumed, the get calls made, and whether the last get found  *)
(* fewer bytes than it asked for (res is then the IO error of a closed     *)
(* transport; on an open one the call blocks).                             *)
(***************************************************************************)
FromIo(res, rest, nread, gets, short) ==
  [res |-> res, rest |-> rest, nread |-> nread, gets |-> gets, short |-> short]

\* lines 91-94: the blob from the tag and the payload read
from_io_blob(header, r, rest, nread) ==
  IF r.kind # "ok" THEN FromIo(r, rest, nread, 2, FALSE)
  ELSE FromIo(Ok([header |-> header, blob |-> r.val]), rest, nread, 2, FALSE)

\* lines 85-91: the payload
from_io_data(header, tag, g2, nread) ==
  IF g2.kind = "short" THEN FromIo(IOErr, <<>>, nread, 2, TRUE)
  ELSE from_io_blob(header, unwrap(from_tag_and_data(tag, g2.val)), g2.rest,
                    HEADER_SIZE + TAG_SIZE + inner_len(tag))

\* lines 76-85: header and tag
from_io_header(header, tag, rest, buflen, nread) ==
  LET pre == HEADER_SIZE + TAG_SIZE IN
  IF header.version # VERSION_CURRENT THEN FromIo(invalid_data("Wrong version"), rest, pre, 1, FALSE)
  ELSE IF is_valid(tag).kind # "ok" THEN FromIo(is_valid(tag), rest, pre, 1, FALSE)
  ELSE IF inner_len(tag) > buflen - pre THEN FromIo(Panic("slice index"), rest, pre, 1, FALSE)
  ELSE from_io_data(header, tag, io_get(rest, inner_len(tag)), nread)

\* lines 74-76: the first get
from_io_pre(g1, buflen, nread) ==
  IF g1.kind = "short" THEN FromIo(IOErr, <<>>, nread, 1, TRUE)
  ELSE from_io_header(MessageHeader_from_bytes(Take(g1.val, HEADER_SIZE)),
                      BlobTag_from_bytes(Drop(g1.val, HEADER_SIZE)), g1.rest, buflen, nread)

from_io(rx, buflen) ==
  IF buflen < HEADER_SIZE + TAG_SIZE THEN FromIo(Panic("split_at_mut"), rx, 0, 0, FALSE)
  ELSE from_io_pre(io_get(rx, HEADER_SIZE + TAG_SIZE), buflen, Len(rx))

(***************************************************************************)
(* BlobBuilder, src/src/blob.rs:76-131.  A builder is [buffer, offset].    *)
(***************************************************************************)
BlobBuilder_from_bytes(buffer) == [buffer |-> buffer, offset |-> 0]

\* A caller-owned buffer &mut [u8] is held as its length and its bytes up to
\* the last one written; the bytes after those are the zeros the callers
\* allocate it with ([0u8; 1024], src/src/connection.rs:72, 132).
ZeroBuf(n) == [cap |-> n, data |-> <<>>]
BufLen(buffer) == buffer.cap
\* the byte at 0-based index i
BufAt(buffer, i) == IF i < Len(buffer.data) THEN buffer.data[i + 1] ELSE 0
\* &buffer[..n] as bytes (n <= len)
BufTake(buffer, n) == [i \in 1..n |-> BufAt(buffer, i - 1)]
\* &mut buffer[n..] (n <= len)
BufDrop(buffer, n) == [cap |-> buffer.cap - n, data |-> Drop(buffer.data, n)]
\* the buffer whose first n bytes are left and whose rest is the sub-slice sub
BufJoin(buffer, n, sub) == [cap |-> buffer.cap, data |-> IF sub.data = <<>> THEN Take(buffer.data, n) ELSE BufTake(buffer, n) \o sub.data]
\* buffer[at..at+len(bytes)] = bytes, 0-based at (at + len(bytes) <= len)
Store(buffer, at, bytes) ==
  IF bytes = <<>> THEN buffer
  ELSE [cap |-> buffer.cap,
        data |-> [i \in 1..(IF Len(buffer.data) > at + Len(bytes) THEN Len(buffer.data) ELSE at + Len(bytes)) |->
                    IF i > at /\ i <= at + Len(bytes) THEN bytes[i - at] ELSE BufAt(buffer, i - 1)]]

\* push_tagged advancing the offset by the blob's size without its padding
push_tagged_unpadded(b, data, tag) ==
  IF tag.kind # "ok" THEN tag
  ELSE IF BufLen(b.buffer) - b.offset < TAG_SIZE THEN Panic("slice index")
  ELSE Ok([buffer |-> Store(Store(b.buffer, b.offset + TAG_SIZE, data), b.offset, BlobTag_to_bytes(tag.val)),
           offset |-> b.offset + TAG_SIZE + Len(data)])

\* lines 115-121: the tag written in front of the payload, the offset advanced
push_tagged(b, data, tag) ==
  IF tag.kind # "ok" THEN tag
  ELSE IF BufLen(b.buffer) - b.offset < TAG_SIZE THEN Panic("slice index")
  ELSE Ok([buffer |-> Store(Store(b.buffer, b.offset + TAG_SIZE, data), b.offset, BlobTag_to_bytes(tag.val)),
           offset |-> b.offset + TAG_SIZE + Len(data) + padding(tag.val)])

\* BlobBuilder::push_bytes: ok with the builder after the push, err or panic
push_bytes(b, id, data) ==
  IF b.offset > BufLen(b.buffer) THEN Panic("slice index")
  ELSE
    LET room == BufLen(b.buffer) - b.offset
        \* the loop writes data[k] at len = TAG_SIZE + k - 1 if len < room
        fits == TAG_SIZE + Len(data) <= room \/ Len(data) = 0
    IN
    IF ~fits THEN InvalidData("BlobBuilder overflow!")
    ELSE push_tagged(b, data, BlobTag_new(id, TAG_SIZE + Len(data)))

push_u32(b, id, v) == push_bytes(b, id, ToBE32(v))
push_bool(b, id, v) == push_bytes(b, id, IF v THEN <<1>> ELSE <<0>>)
push_str(b, id, s) == push_bytes(b, id, s \o <<0>>)
BlobBuilder_len(b) == b.offset

(***************************************************************************)
(* MessageBuilder, src/src/message.rs:111-171.  [buffer, offset].          *)
(***************************************************************************)
MessageBuilder_new(buffer, header) ==
  IF ~(BufLen(buffer) >= HEADER_SIZE + TAG_SIZE) THEN invalid_data("Builder buffer is too small")
  ELSE Ok([buffer |-> Store(buffer, 0, MessageHeader_to_bytes(header)),
           offset |-> HEADER_SIZE + TAG_SIZE])

\* MessageBuilder::put: the id each attribute kind is written under
put_blob(blob, attr) ==
  CASE attr.t = "Status" -> push_u32(blob, ATTR_STATUS, attr.val)
    [] attr.t = "ObjPath" -> push_str(blob, ATTR_OBJPATH, attr.val)
    [] attr.t = "ObjId" -> push_u32(blob, ATTR_OBJID, attr.val)
    [] attr.t = "Method" -> push_str(blob, ATTR_METHOD, attr.val)
    [] attr.t = "ObjType" -> push_u32(blob, ATTR_STATUS, attr.val)
    [] attr.t = "Signature" -> Panic("unimplemented")
    [] attr.t = "Data" -> push_bytes(blob, ATTR_DATA, attr.val)
    [] attr.t = "Target" -> push_u32(blob, ATTR_TARGET, attr.val)
    [] attr.t = "Active" -> push_bool(blob, ATTR_USER, attr.val)
    [] attr.t = "NoReply" -> push_bool(blob, ATTR_USER, attr.val)
    [] attr.t = "Subscribers" -> Panic("unimplemented")
    [] attr.t = "User" -> push_str(blob, ATTR_USER, attr.val)
    [] attr.t = "Group" -> push_str(blob, ATTR_GROUP, attr.val)
    [] attr.t = "Unknown" -> push_bytes(blob, attr.val[1], attr.val[2])

\* line 152: self.offset += blob.len(), the blob builder's slice being part of the buffer
put_done(m, r) ==
  IF r.kind # "ok" THEN r
  ELSE Ok([buffer |-> BufJoin(m.buffer, m.offset, r.val.buffer),
           offset |-> m.offset + BlobBuilder_len(r.val)])

MessageBuilder_put(m, attr) ==
  IF m.offset > BufLen(m.buffer) THEN Panic("slice index")
  ELSE put_done(m, put_blob(BlobBuilder_from_bytes(BufDrop(m.buffer, m.offset)), attr))

\* MessageBuilder::finish: patch the outer tag, return buffer[..offset]
finish_tagged(m, tag) ==
  IF tag.kind # "ok" THEN tag
  ELSE IF m.offset > BufLen(m.buffer) THEN Panic("slice index")
  ELSE Ok(BufTake(Store(m.buffer, HEADER_SIZE, BlobTag_to_bytes(tag.val)), m.offset))

MessageBuilder_finish(m) == finish_tagged(m, unwrap(BlobTag_new(0, m.offset - HEADER_SIZE)))

(***************************************************************************)
(* Connection, src/src/connection.rs                                       *)
(***************************************************************************)
\* the scratch buffer of invoke and lookup, src/src/connection.rs:72, 132
SCRATCH_LEN == 1024
\* u16 arithmetic of Connection::sequence
U16 == 65536

VARIABLES
  pc,         \* where the client is: "start", "idle", "invoke", "lookup", "failed", "panicked"
  peer,       \* Connection::peer
  sequence,   \* Connection::sequence
  rx,         \* transport: bytes sent by the server and not yet read by get
  closed,     \* transport: the server has closed its end
  tx,         \* transport: the slices handed to put, in order
  nsent,      \* history: the number of frames the server has sent
  call,       \* the call in progress or last returned: its arguments and local sequence
  rxlog,      \* history: the messages next_message returned Ok during that call
  nread,      \* history: the bytes that call has taken from the transport
  callbacks,  \* history: the callbacks invoked during that call, in order
  result,     \* what that call returned ("pending" while it runs)
  ncalls      \* history: number of invoke/lookup calls started

vars == <<pc, peer, sequence, rx, closed, tx, nsent, call, rxlog, nread, callbacks, result, ncalls>>

Pending == [kind |-> "pending"]

\* put_bytes on a transport whose put never fails
put_bytes_unfailing(bytes) == bytes

\* Connection::send: self.io.put(message.into())
put_bytes(bytes) ==
  IF bytes.kind # "ok" THEN bytes
  ELSE IF closed THEN IOErr
  ELSE bytes
send(m) == put_bytes(MessageBuilder_finish(m))
\* message.put(..)? and self.send(message)? after a Result r holding the builder
then_put(r, attr) == IF r.kind = "ok" THEN MessageBuilder_put(r.val, attr) ELSE r
then_send(r) == IF r.kind = "ok" THEN send(r.val) ELSE r

\* next_sequence without the increment
next_sequence_kept == sequence

\* self.sequence += 1 (lines 69, 129), wrapping as a release build does
next_sequence == (sequence + 1) % U16

\* Connection::next_message
next_message == from_io(rx, BUFFER_LEN)

\* a blocking get returns only when its bytes are there or the peer has closed
Readable == ~next_message.short \/ closed

\* the call returns r (or panics): the client is idle again, or gone
Return(r) ==
  /\ result' = r
  /\ pc' = IF r.kind = "panic" THEN "panicked" ELSE "idle"

(***************************************************************************)
(* Connection::new, src/src/connection.rs:30-51                            *)
(***************************************************************************)
\* lines 42-50 on the message next_message returned
new_hello(message) ==
  /\ rxlog' = <<message>>
  /\ IF message.header.message = HELLO
     THEN /\ peer' = message.header.peer
          /\ result' = Ok("connection")
          /\ pc' = "idle"
     ELSE /\ result' = invalid_data("Expected hello")
          /\ pc' = IF DebugAssertions THEN "panicked" ELSE "failed"
          /\ UNCHANGED peer

new_on(r) ==
  /\ rx' = r.rest
  /\ nread' = r.nread
  /\ call' = [op |-> "new"]
  /\ IF r.res.kind # "ok"
     THEN /\ result' = r.res
          /\ pc' = IF r.res.kind = "panic" THEN "panicked" ELSE "failed"
          /\ UNCHANGED <<peer, rxlog>>
     ELSE new_hello(r.res.val)

New ==
  /\ pc = "start"
  /\ Readable
  /\ new_on(next_message)
  /\ UNCHANGED <<sequence, closed, tx, nsent, callbacks, ncalls>>

(***************************************************************************)
(* Connection::invoke, src/src/connection.rs:62-122                        *)
(***************************************************************************)
\* invoke_request with the Method attribute put before the ObjId attribute
invoke_request_method_first(seq, obj, method, args) ==
  then_put(then_put(then_put(
      unwrap(MessageBuilder_new(ZeroBuf(SCRATCH_LEN), Header(VERSION_CURRENT, INVOKE, seq, obj))),
      Attr("Method", method)), Attr("ObjId", obj)), Attr("Data", <<>>))

\* the request invoke builds (lines 72-86): ok with the MessageBuilder, err or panic
invoke_request(seq, obj, method, args) ==
  then_put(then_put(then_put(
      unwrap(MessageBuilder_new(ZeroBuf(SCRATCH_LEN), Header(VERSION_CURRENT, INVOKE, seq, obj))),
      Attr("ObjId", obj)), Attr("Method", method)), Attr("Data", <<>>))

\* started with the request written twice
started_twice(sent, loop) ==
  IF sent.kind = "ok"
  THEN /\ tx' = Append(Append(tx, sent.val), sent.val)
       /\ pc' = loop
       /\ result' = Pending
  ELSE /\ Return(sent)
       /\ UNCHANGED tx

\* line 88 and the entry into the loop, or the early return of a `?`
started(sent, loop) ==
  IF sent.kind = "ok"
  THEN /\ tx' = Append(tx, sent.val)
       /\ pc' = loop
       /\ result' = Pending
  ELSE /\ Return(sent)
       /\ UNCHANGED tx

\* lines 69-88: bump the sequence, build the request, send it
InvokeStart(obj, method, args) ==
  /\ pc = "idle"
  /\ sequence' = next_sequence
  /\ ncalls' = ncalls + 1
  /\ call' = [op |-> "invoke", obj |-> obj, method |-> method, args |-> args, sequence |-> next_sequence]
  /\ rxlog' = <<>>
  /\ nread' = 0
  /\ callbacks' = <<>>
  /\ started(then_send(invoke_request(next_sequence, obj, method, args)), "invoke")
  /\ UNCHANGED <<peer, rx, closed, nsent>>

\* lines 99-106: the first Status attribute decides
RECURSIVE status_loop(_)
\* status_next with a missing Status attribute taken for success
status_next_missing_ok(n) ==
  IF n.kind = "none" THEN Ok("done")
  ELSE IF n.kind = "panic" THEN Panic("attribute")
  ELSE IF n.item.t = "Status"
       THEN IF n.item.val = 0 THEN Ok("done") ELSE StatusErr(n.item.val)
       ELSE status_loop(n.rest)
status_next(n) ==
  IF n.kind = "none" THEN InvalidData("Invalid status message")
  ELSE IF n.kind = "panic" THEN Panic("attribute")
  ELSE IF n.item.t = "Status"
       THEN IF n.item.val = 0 THEN Ok("done") ELSE StatusErr(n.item.val)
       ELSE status_loop(n.rest)
status_loop(attrs) == status_next(BlobIter_next_attr(attrs))

\* lines 109-115: the first Data attribute goes to on_result
RECURSIVE data_loop(_)
\* data_next handing the first attribute of any kind to on_result
data_next_any(n) ==
  IF n.kind = "none" THEN InvalidData("Invalid data message")
  ELSE IF n.kind = "panic" THEN Panic("attribute")
  ELSE Ok(n.item.val)
data_next(n) ==
  IF n.kind = "none" THEN InvalidData("Invalid data message")
  ELSE IF n.kind = "panic" THEN Panic("attribute")
  ELSE IF n.item.t = "Data" THEN Ok(n.item.val)
       ELSE data_loop(n.rest)
data_loop(attrs) == data_next(BlobIter_next_attr(attrs))

\* invoke_data going on to the next frame when no Data attribute was found
invoke_data_lenient(d) ==
  IF d.kind = "ok"
  THEN /\ callbacks' = Append(callbacks, [cb |-> "on_result", data |-> d.val])
       /\ UNCHANGED <<pc, result>>
  ELSE UNCHANGED <<pc, result, callbacks>>

\* lines 108-116: a DATA message, d being what the attribute loop found
invoke_data(d) ==
  IF d.kind = "ok"
  THEN /\ callbacks' = Append(callbacks, [cb |-> "on_result", data |-> d.val])
       /\ UNCHANGED <<pc, result>>
  ELSE /\ Return(d)
       /\ UNCHANGED callbacks

\* invoke_message without the sequence test of lines 91-93
invoke_message_any_sequence(message) ==
  /\ rxlog' = Append(rxlog, message)
  /\ IF message.header.message = STATUS
     THEN /\ Return(status_loop(message.blob.data))
          /\ UNCHANGED callbacks
     ELSE IF message.header.message = DATA
     THEN invoke_data(data_loop(message.blob.data))
     ELSE UNCHANGED <<pc, result, callbacks>>

\* lines 91-120 on the message next_message returned
invoke_message(message) ==
  /\ rxlog' = Append(rxlog, message)
  /\ IF message.header.sequence # call.sequence
     THEN UNCHANGED <<pc, result, callbacks>>
     ELSE IF message.header.message = STATUS
     THEN /\ Return(status_loop(message.blob.data))
          /\ UNCHANGED callbacks
     ELSE IF message.header.message = DATA
     THEN invoke_data(data_loop(message.blob.data))
     ELSE UNCHANGED <<pc, result, callbacks>>

\* invoke_on taking everything the transport holds, not only the frame read
invoke_on_drain(r) ==
  /\ rx' = <<>>
  /\ nread' = nread + r.nread
  /\ IF r.res.kind # "ok"
     THEN /\ Return(r.res)
          /\ UNCHANGED <<rxlog, callbacks>>
     ELSE invoke_message(r.res.val)

\* line 90: next_message()? and the rest of the turn
invoke_on(r) ==
  /\ rx' = r.rest
  /\ nread' = nread + r.nread
  /\ IF r.res.kind # "ok"
     THEN /\ Return(r.res)
          /\ UNCHANGED <<rxlog, callbacks>>
     ELSE invoke_message(r.res.val)

\* one turn of the 'message loop, lines 89-121
InvokeStep ==
  /\ pc = "invoke"
  /\ Readable
  /\ invoke_on(next_message)
  /\ UNCHANGED <<peer, sequence, closed, tx, nsent, call, ncalls>>

(***************************************************************************)
(* Connection::lookup, src/src/connection.rs:124-205                       *)
(***************************************************************************)
\* lines 132-142: the request has no attributes
lookup_request(seq) ==
  unwrap(MessageBuilder_new(ZeroBuf(SCRATCH_LEN), Header(VERSION_CURRENT, LOOKUP, seq, 0)))

LookupStart ==
  /\ pc = "idle"
  /\ sequence' = next_sequence
  /\ ncalls' = ncalls + 1
  /\ call' = [op |-> "lookup", sequence |-> next_sequence]
  /\ rxlog' = <<>>
  /\ nread' = 0
  /\ callbacks' = <<>>
  /\ started(then_send(lookup_request(next_sequence)), "lookup")
  /\ UNCHANGED <<peer, rx, closed, nsent>>

\* the callbacks a loop made, and whether it ended in a panic
Calls(c, p) == [calls |-> c, panic |-> p]

\* lines 190-196: the args iterator, read to its end by the callback
RECURSIVE signature_args(_, _)
args_next(n, acc) ==
  IF n.kind = "none" THEN Calls(acc, FALSE)
  ELSE IF n.kind = "panic" THEN Calls(acc, TRUE)
  ELSE IF n.item.data.t = "Int32" /\ n.item.name # None
       THEN signature_args(n.rest, Append(acc, <<n.item.name[1], n.item.data.val>>))
       ELSE Calls(acc, TRUE)
signature_args(table, acc) == args_next(BlobMsgIter_next(table), acc)

\* lines 185-199: one on_signature per Table entry of the nested iterator
RECURSIVE signature_loop(_, _, _)
\* lines 187-197: the callback, a being its args read to the end
on_signature(object, signature, rest, acc, a) ==
  IF a.panic
  THEN Calls(Append(acc, [cb |-> "on_signature", object |-> object,
                          name |-> signature.name[1], args |-> a.calls]), TRUE)
  ELSE signature_loop(object, rest,
                      Append(acc, [cb |-> "on_signature", object |-> object,
                                   name |-> signature.name[1], args |-> a.calls]))
signature_next(object, n, acc) ==
  IF n.kind = "none" THEN Calls(acc, FALSE)
  ELSE IF n.kind = "panic" THEN Calls(acc, TRUE)
  ELSE IF n.item.data.t = "Table"
       THEN IF n.item.name = None THEN Calls(acc, TRUE)
            ELSE on_signature(object, n.item, n.rest, acc, signature_args(n.item.data.val, <<>>))
       ELSE signature_loop(object, n.rest, acc)
signature_loop(object, nested, acc) == signature_next(object, BlobMsgIter_next(nested), acc)

\* lines 169-203: the attributes of one DATA frame
RECURSIVE object_loop(_, _, _, _, _)
\* after the signatures s of one Signature attribute
object_signed(rest, obj_path, obj_id, obj_type, s) ==
  IF s.panic THEN s ELSE object_loop(rest, obj_path, obj_id, obj_type, s.calls)
\* ObjectResult with id and ty taken from each other's attribute
ObjectResult_swapped(obj_path, obj_id, obj_type) == [path |-> obj_path[1], id |-> obj_type[1], ty |-> obj_id[1]]
\* lines 178-183: the object built from the three unwrapped options
ObjectResult(obj_path, obj_id, obj_type) == [path |-> obj_path[1], id |-> obj_id[1], ty |-> obj_type[1]]
object_next(n, obj_path, obj_id, obj_type, acc) ==
  IF n.kind = "none" THEN Calls(acc, FALSE)
  ELSE IF n.kind = "panic" THEN Calls(acc, TRUE)
  ELSE CASE n.item.t = "ObjPath" -> object_loop(n.rest, Some(n.item.val), obj_id, obj_type, acc)
         [] n.item.t = "ObjId" -> object_loop(n.rest, obj_path, Some(n.item.val), obj_type, acc)
         [] n.item.t = "ObjType" -> object_loop(n.rest, obj_path, obj_id, Some(n.item.val), acc)
         [] n.item.t = "Signature" ->
              IF obj_path = None \/ obj_id = None \/ obj_type = None THEN Calls(acc, TRUE)
              ELSE object_signed(n.rest, obj_path, obj_id, obj_type,
                     signature_loop(ObjectResult(obj_path, obj_id, obj_type), n.item.val,
                       Append(acc, [cb |-> "on_object",
                                    object |-> ObjectResult(obj_path, obj_id, obj_type)])))
         [] OTHER -> object_loop(n.rest, obj_path, obj_id, obj_type, acc)
object_loop(attrs, obj_path, obj_id, obj_type, acc) ==
  object_next(BlobIter_next_attr(attrs), obj_path, obj_id, obj_type, acc)

\* lines 169-203 on a DATA message, c being the callbacks its attributes caused
lookup_data(c) ==
  /\ callbacks' = callbacks \o c.calls
  /\ IF c.panic THEN Return(Panic("lookup")) ELSE UNCHANGED <<pc, result>>

\* the last value of the attribute kind t among attrs, or acc
RECURSIVE last_attr(_, _, _)
last_attr_next(n, t, acc) ==
  IF n.kind # "some" THEN acc
  ELSE last_attr(n.rest, t, IF n.item.t = t THEN Some(n.item.val) ELSE acc)
last_attr(attrs, t, acc) == last_attr_next(BlobIter_next_attr(attrs), t, acc)
\* what the message read before this one would have left in obj_path, obj_id
\* and obj_type
kept(t) == IF rxlog = <<>> THEN None ELSE last_attr(rxlog[Len(rxlog)].blob.data, t, None)
\* lookup_message with the three options declared outside the loop, so that
\* they keep the values of the frame before
lookup_message_carrying(message) ==
  /\ rxlog' = Append(rxlog, message)
  /\ IF message.header.sequence # call.sequence
     THEN UNCHANGED <<pc, result, callbacks>>
     ELSE IF message.header.message = STATUS
     THEN /\ Return(status_loop(message.blob.data))
          /\ UNCHANGED callbacks
     ELSE IF message.header.message # DATA
     THEN UNCHANGED <<pc, result, callbacks>>
     ELSE lookup_data(object_loop(message.blob.data, kept("ObjPath"), kept("ObjId"), kept("ObjType"), <<>>))

\* lookup_message without the STATUS branch of lines 154-163
lookup_message_deaf(message) ==
  /\ rxlog' = Append(rxlog, message)
  /\ IF message.header.sequence # call.sequence \/ message.header.message # DATA
     THEN UNCHANGED <<pc, result, callbacks>>
     ELSE lookup_data(object_loop(message.blob.data, None, None, None, <<>>))

\* lines 148-203 on the message next_message returned
lookup_message(message) ==
  /\ rxlog' = Append(rxlog, message)
  /\ IF message.header.sequence # call.sequence
     THEN UNCHANGED <<pc, result, callbacks>>
     ELSE IF message.header.message = STATUS
     THEN /\ Return(status_loop(message.blob.data))
          /\ UNCHANGED callbacks
     ELSE IF message.header.message # DATA
     THEN UNCHANGED <<pc, result, callbacks>>
     ELSE lookup_data(object_loop(message.blob.data, None, None, None, <<>>))

\* line 147: next_message()? and the rest of the turn
lookup_on(r) ==
  /\ rx' = r.rest
  /\ nread' = nread + r.nread
  /\ IF r.res.kind # "ok"
     THEN /\ Return(r.res)
          /\ UNCHANGED <<rxlog, callbacks>>
     ELSE lookup_message(r.res.val)

\* one turn of the loop, lines 146-204
LookupStep ==
  /\ pc = "lookup"
  /\ Readable
  /\ lookup_on(next_message)
  /\ UNCHANGED <<peer, sequence, closed, tx, nsent, call, ncalls>>

(***************************************************************************)
(* The bus daemon's side of the transport: the frames it may send, in the  *)
(* wire format the parser above reads (blob.rs:150-185, message.rs:71-95). *)
(***************************************************************************)
\* a non-extended blob: tag, payload, padding
EncBlob(id, payload) ==
  ToBE32(id * Pow2(ID_SHIFT) + TAG_SIZE + Len(payload)) \o payload \o Zeros(align_pad(Len(payload)))

\* an extended blob: tag with bit 31, name length, name, NUL, padding, payload, padding
EncNamed(id, name, payload) ==
  LET ext == ToBE16(Len(name)) \o name \o <<0>> \o Zeros(align_pad(2 + Len(name) + 1))
      body == ext \o payload
  IN  ToBE32(EXTENDED_BIT + id * Pow2(ID_SHIFT) + TAG_SIZE + Len(body)) \o body \o Zeros(align_pad(Len(body)))

\* a frame: header, outer tag (id 0), attributes
EncFrame(version, type, seq, p, attrs) ==
  MessageHeader_to_bytes(Header(version, type, seq, p)) \o ToBE32(TAG_SIZE + Len(attrs)) \o attrs

\* scenario S4: HELLO, sequence 0, peer 42, empty payload
HelloFrame == EncFrame(VERSION_CURRENT, HELLO, 0, 42, <<>>)
StatusFrame(s, code) == EncFrame(VERSION_CURRENT, STATUS, s, 0, EncBlob(ATTR_STATUS, ToBE32(code)))
StatusNoAttrFrame(s) == EncFrame(VERSION_CURRENT, STATUS, s, 0, EncBlob(ATTR_OBJID, ToBE32(7)))
\* a reply payload: one named INT32 blob-message
ReplyPayload(v) == EncNamed(BLOBMSG_INT32, <<97>>, ToBE32(v))
DataFrame(s, v) ==
  EncFrame(VERSION_CURRENT, DATA, s, 0, EncBlob(ATTR_OBJID, ToBE32(7)) \o EncBlob(ATTR_DATA, ReplyPayload(v)))
DataNoAttrFrame(s) == EncFrame(VERSION_CURRENT, DATA, s, 0, EncBlob(ATTR_OBJID, ToBE32(7)))
PingFrame(s) == EncFrame(VERSION_CURRENT, PING, s, 0, <<>>)
BadVersionFrame == EncFrame(1, HELLO, 0, 42, <<>>)
\* outer tag announcing more payload than the receive buffer holds
HugeTagFrame(type, s) ==
  MessageHeader_to_bytes(Header(VERSION_CURRENT, type, s, 42)) \o ToBE32(BUFFER_LEN)

\* bounds of the model
MaxFrames == 4
MaxCalls == 2

\* the sequence numbers the daemon's frames carry
Seqs == {1, 2}

\* what the daemon may send while the driver runs
Frames ==
  {HelloFrame, BadVersionFrame, HugeTagFrame(HELLO, 0)}
  \cup {StatusFrame(s, 0) : s \in Seqs} \cup {StatusFrame(1, 6)}
  \cup {DataFrame(s, 5) : s \in Seqs}
  \cup {StatusNoAttrFrame(1), DataNoAttrFrame(1), PingFrame(1)}

\* the arguments invoke is called with: (obj, method, args)
Args1 == <<Attr("Int32", 5)>>
InvokeInputs == {<<42, <<97>>, Args1>>, <<16909060, <<97, 98>>, <<>>>>}

ServerSend(f) ==
  /\ ~closed
  /\ nsent < MaxFrames
  /\ rx' = rx \o f
  /\ nsent' = nsent + 1
  /\ UNCHANGED <<pc, peer, sequence, closed, tx, call, rxlog, nread, callbacks, result, ncalls>>

ServerClose ==
  /\ ~closed
  /\ closed' = TRUE
  /\ UNCHANGED <<pc, peer, sequence, rx, tx, nsent, call, rxlog, nread, callbacks, result, ncalls>>

\* the state before Connection::new: the struct literal of lines 31-36 on a fresh transport
Init ==
  /\ pc = "start"
  /\ peer = 0
  /\ sequence = 0
  /\ rx = <<>>
  /\ closed = FALSE
  /\ tx = <<>>
  /\ nsent = 0
  /\ call = [op |-> "none"]
  /\ rxlog = <<>>
  /\ nread = 0
  /\ callbacks = <<>>
  /\ result = Pending
  /\ ncalls = 0

Invoke == \E i \in InvokeInputs : ncalls < MaxCalls /\ InvokeStart(i[1], i[2], i[3])
Lookup == ncalls < MaxCalls /\ LookupStart
Server == \E f \in Frames : ServerSend(f)

Next ==
  \/ Server
  \/ ServerClose
  \/ New
  \/ Invoke
  \/ InvokeStep
  \/ Lookup
  \/ LookupStep

Spec == Init /\ [][Next]_vars

(***************************************************************************)
(* The same connection late in its life: 65533 calls made, the log of      *)
(* written frames started afresh.  Two more calls reach the last sequence  *)
(* number before the 16-bit counter wraps.                                 *)
(***************************************************************************)
InitLate ==
  /\ pc = "idle"
  /\ peer = 42
  /\ sequence = U16 - 3
  /\ rx = <<>>
  /\ closed = FALSE
  /\ tx = <<>>
  /\ nsent = 1
  /\ call = [op |-> "new"]
  /\ rxlog = <<>>
  /\ nread = 0
  /\ callbacks = <<>>
  /\ result = Ok("connection")
  /\ ncalls = U16 - 3

InvokeLate == \E i \in InvokeInputs : ncalls >= U16 - 3 /\ ncalls < U16 - 1 /\ InvokeStart(i[1], i[2], i[3])
LookupLate == ncalls >= U16 - 3 /\ ncalls < U16 - 1 /\ LookupStart

InitSeq == Init \/ InitLate
NextSeq == Next \/ InvokeLate \/ LookupLate
SpecSeq == InitSeq /\ [][NextSeq]_vars

(***************************************************************************)
(* invoke over the range of its arguments: object ids up to the top bit,   *)
(* method names from empty to longer than the 1024-byte scratch buffer     *)
(* takes, with and without args.                                           *)
(***************************************************************************)
\* a method name of n bytes
LongName(n) == [i \in 1..n |-> 109]
ReqObjs == {42, -1}
ReqMethods == {<<>>, <<97>>, <<97, 98, 99>>, <<97, 98, 99, 100>>, LongName(995), LongName(996)}
ReqArgs == {<<>>, Args1}
ReqFrames == {HelloFrame, StatusFrame(1, 0)}

InvokeReq ==
  \E obj \in ReqObjs, method \in ReqMethods, args \in ReqArgs :
    ncalls < MaxCalls /\ InvokeStart(obj, method, args)
ServerReq == \E f \in ReqFrames : ServerSend(f)

NextReq ==
  \/ ServerReq
  \/ New
  \/ InvokeReq
  \/ InvokeStep

SpecReq == Init /\ [][NextReq]_vars

(***************************************************************************)
(* lookup against a daemon that describes objects.  An object is            *)
(* [path, id, ty, entries]; an entry of its signature is a named TABLE of   *)
(* named INT32 type ids, or (table = FALSE) a named INT32 that is no method.*)
(***************************************************************************)
Method(name, args) == [table |-> TRUE, name |-> name, args |-> args]
NoMethod(name) == [table |-> FALSE, name |-> name, args |-> <<>>]

RECURSIVE EncArgs(_)
EncArgs(args) ==
  IF args = <<>> THEN <<>>
  ELSE EncNamed(BLOBMSG_INT32, args[1][1], ToBE32(args[1][2])) \o EncArgs(Tail(args))

RECURSIVE EncEntries(_)
EncEntries(entries) ==
  IF entries = <<>> THEN <<>>
  ELSE (IF entries[1].table
        THEN EncNamed(BLOBMSG_TABLE, entries[1].name, EncArgs(entries[1].args))
        ELSE EncNamed(BLOBMSG_INT32, entries[1].name, ToBE32(0)))
       \o EncEntries(Tail(entries))

\* the attributes of the DATA frame that describes the object o
EncObject(o) ==
  EncBlob(ATTR_OBJPATH, o.path \o <<0>>) \o EncBlob(ATTR_OBJID, ToBE32(o.id))
  \o EncBlob(ATTR_OBJTYPE, ToBE32(o.ty)) \o EncBlob(ATTR_SIGNATURE, EncEntries(o.entries))
ObjectFrame(s, o) == EncFrame(VERSION_CURRENT, DATA, s, 0, EncObject(o))
\* a DATA frame whose SIGNATURE attribute comes before the object's id and type
SignatureFirstFrame(s) ==
  EncFrame(VERSION_CURRENT, DATA, s, 0,
           EncBlob(ATTR_OBJPATH, <<97, 0>>) \o EncBlob(ATTR_SIGNATURE, <<>>) \o EncBlob(ATTR_OBJID, ToBE32(7)))

\* the objects the daemon describes
Objects ==
  { [path |-> <<97>>, id |-> 7, ty |-> 9,
     entries |-> <<Method(<<109>>, << <<(<<97>>), BLOBMSG_INT32>> >>)>>],
    [path |-> <<97, 98>>, id |-> -1, ty |-> 16909060,
     entries |-> <<Method(<<109>>, << <<(<<97>>), BLOBMSG_STRING>>, <<(<<98, 99>>), BLOBMSG_INT32>> >>),
                   NoMethod(<<120>>),
                   Method(<<110, 111>>, <<>>)>>],
    [path |-> <<98>>, id |-> 8, ty |-> 9, entries |-> <<>>] }

LookupFrames ==
  {HelloFrame, StatusFrame(1, 0), DataNoAttrFrame(1), SignatureFirstFrame(1)}
  \cup {ObjectFrame(1, o) : o \in Objects}
  \cup {ObjectFrame(2, o) : o \in Objects}

ServerLookup == \E f \in LookupFrames : ServerSend(f)

NextLookup ==
  \/ ServerLookup
  \/ New
  \/ Lookup
  \/ LookupStep

SpecLookup == Init /\ [][NextLookup]_vars

(***************************************************************************)
(* Calls against a daemon that refuses the first request and may go away:  *)
(* every frame it sends on sequence 1 is STATUS 6 (permission denied) or   *)
(* DATA, the second request it answers with STATUS 0 or STATUS 6, and it   *)
(* may close the transport between two frames or part way through one.     *)
(* The first call of a connection can then only return Err(Status(6)) or   *)
(* the transport's error, and after that error no request can be written.  *)
(***************************************************************************)
StatusFrames ==
  {HelloFrame, StatusFrame(1, 6), DataFrame(1, 5), StatusFrame(2, 0), StatusFrame(2, 6)}

ServerStatus == \E f \in StatusFrames : ServerSend(f)

\* the daemon goes away having written the first k bytes of a frame: inside
\* the 12 bytes of header and tag, right after them, or inside the payload
ServerDies ==
  \E f \in StatusFrames, k \in {5, 12, 14} :
    /\ ~closed
    /\ nsent < MaxFrames
    /\ k < Len(f)
    /\ rx' = rx \o Take(f, k)
    /\ closed' = TRUE
    /\ nsent' = nsent + 1
    /\ UNCHANGED <<pc, peer, sequence, tx, call, rxlog, nread, callbacks, result, ncalls>>

NextStatus ==
  \/ ServerStatus
  \/ ServerClose
  \/ ServerDies
  \/ New
  \/ Invoke
  \/ InvokeStep
  \/ Lookup
  \/ LookupStep

SpecStatus == Init /\ [][NextStatus]_vars

(***************************************************************************)
(* The driver as a running thread.  A call of new, invoke or lookup blocks *)
(* in IO::get (src/src/stdio.rs:11-13) only while the bytes it asks for    *)
(* are not there: once they are, or the peer has closed, the read returns  *)
(* and the code after it runs to the next read or to the return.  That is  *)
(* the one thing assumed to happen; nothing is assumed of the daemon, nor  *)
(* of the caller starting another call.  The daemon's frames are whole and *)
(* of the current version, with outer tags the receive buffer takes.       *)
(***************************************************************************)
\* bound: the frames the daemon sends in all
MaxLive == 3

\* what the daemon sends: replies to the first request (DATA with and without
\* a DATA attribute, STATUS 0 and 6) and a STATUS for the second
LiveFrames ==
  {HelloFrame, StatusFrame(1, 0), StatusFrame(1, 6), StatusFrame(2, 0), DataFrame(1, 5),
   DataNoAttrFrame(1)}

ServerLive == \E f \in LiveFrames : nsent < MaxLive /\ ServerSend(f)
InvokeLive == ncalls < MaxCalls /\ InvokeStart(42, <<97>>, Args1)

NextLive ==
  \/ ServerLive
  \/ ServerClose
  \/ New
  \/ InvokeLive
  \/ InvokeStep
  \/ Lookup
  \/ LookupStep

\* next_message returns to the call that waits in it: the bytes it read are
\* off the transport, and the call reads on, has returned, or is gone.  Of the
\* steps of NextLive these are the steps New, InvokeStep and LookupStep, and
\* it is enabled where they are.
Reading == pc \in {"start", "invoke", "lookup"}
ReadReturns ==
  /\ Reading
  /\ Readable
  /\ rx' = next_message.rest
  /\ pc' \in {pc, "idle", "failed", "panicked"}

SpecLive ==
  /\ Init
  /\ [][NextLive]_vars
  /\ WF_<<rx, pc>>(ReadReturns)

(***************************************************************************)
(* Connection::next_message on its own (src/src/connection.rs:54-56):       *)
(* Message::from_io with the connection's 64 KiB buffer, once, on a stream  *)
(* that holds a whole frame, with or without bytes after it.                *)
(***************************************************************************)
\* one call of next_message on the stream
NextMessage ==
  /\ pc = "from_io"
  /\ Readable
  /\ rx' = next_message.rest
  /\ nread' = next_message.nread
  /\ result' = next_message.res
  /\ rxlog' = IF next_message.res.kind = "ok" THEN <<next_message.res.val>> ELSE <<>>
  /\ pc' = IF next_message.res.kind = "panic" THEN "panicked" ELSE "returned"
  /\ UNCHANGED <<peer, sequence, closed, tx, nsent, call, callbacks, ncalls>>

\* a frame with this header whose outer tag is the word tag, followed by n payload bytes
RawFrame(version, type, seq, tag, n) ==
  MessageHeader_to_bytes(Header(version, type, seq, 42)) \o ToBE32(tag) \o [i \in 1..n |-> (i % 251) + 1]

\* outer tag words: sizes 3 (too small), 4, 5, 8, 12, and 8 and 12 with the extended bit
SmallTags == {3, 4, 5, 8, 12, EXTENDED_BIT + 8, EXTENDED_BIT + 12}
\* the sizes at the end of the receive buffer: the last that fits and the first that does not
EdgeTags == {BUFFER_LEN - HEADER_SIZE, BUFFER_LEN - HEADER_SIZE + 1}

\* the streams from_io is tried on
Streams ==
  {RawFrame(v, t, q, tag, inner_len(tag)) \o trail :
     v \in {0, 1}, t \in {HELLO, STATUS, DATA}, q \in {0, 1}, tag \in SmallTags, trail \in {<<>>, <<170, 187>>}}
  \cup {RawFrame(0, DATA, 1, tag, inner_len(tag)) \o <<170>> : tag \in EdgeTags}
  \cup {RawFrame(0, DATA, 1, EXTENDED_BIT + 12, 8) \o <<170>>}

InitFromIo ==
  \E s \in Streams :
    /\ pc = "from_io"
    /\ peer = 0
    /\ sequence = 0
    /\ rx = s
    /\ closed = FALSE
    /\ tx = <<>>
    /\ nsent = 1
    /\ call = [op |-> "next_message", stream |-> s]
    /\ rxlog = <<>>
    /\ nread = 0
    /\ callbacks = <<>>
    /\ result = Pending
    /\ ncalls = 0

SpecFromIo == InitFromIo /\ [][NextMessage]_vars

(***************************************************************************)
(* The codec on its own: one call of one function of src/src/blob.rs or    *)
(* src/src/blobmsg.rs on given arguments.  call holds the function and its *)
(* arguments, result what it returned.                                     *)
(***************************************************************************)
\* what the accessors of a tag report (src/src/blob.rs:38-66)
BlobTag_fields(t) ==
  [id |-> tag_id(t), size |-> tag_size(t), extended |-> is_extended(t),
   padding |-> padding(t), next_tag |-> next_tag(t), inner_len |-> inner_len(t),
   valid |-> is_valid(t).kind = "ok"]

\* BlobTag::from_bytes and every accessor on the tag
TagDecode ==
  /\ pc = "codec"
  /\ call.op = "tag"
  /\ Return(Ok(BlobTag_fields(BlobTag_from_bytes(call.bytes))))
  /\ UNCHANGED <<peer, sequence, rx, closed, tx, nsent, call, rxlog, nread, callbacks, ncalls>>

\* the tag BlobTag::new gave, and the tag read back from its bytes
tag_made(r) ==
  IF r.kind # "ok" THEN r
  ELSE Ok([tag |-> BlobTag_fields(r.val),
           back |-> BlobTag_fields(BlobTag_from_bytes(BlobTag_to_bytes(r.val)))])

\* BlobTag::new, then to_bytes and from_bytes
TagNew ==
  /\ pc = "codec"
  /\ call.op = "tag_new"
  /\ Return(tag_made(BlobTag_new(call.id, call.len)))
  /\ UNCHANGED <<peer, sequence, rx, closed, tx, nsent, call, rxlog, nread, callbacks, ncalls>>

\* a payload of n bytes
Payload(n) == [i \in 1..n |-> (i % 251) + 1]

\* one push on the builder b: push_bytes of n bytes, push_u32, push_bool or
\* push_str
push_one(b, p) ==
  CASE p.push = "bytes" -> push_bytes(b, p.id, Payload(p.n))
    [] p.push = "u32" -> push_u32(b, p.id, p.val)
    [] p.push = "bool" -> push_bool(b, p.id, p.flag)
    [] p.push = "str" -> push_str(b, p.id, p.str)

\* a sequence of pushes on one builder.  A push that returns Err leaves the
\* builder where it was and the next push follows; a panic ends everything.
\* Each step records how the push ended and len() before and after it.
RECURSIVE push_all(_, _, _)
pushed(b, pushes, steps, r) ==
  IF r.kind = "panic"
  THEN [kind |-> "panic", builder |-> b,
        steps |-> Append(steps, [kind |-> "panic", before |-> b.offset, after |-> b.offset])]
  ELSE IF r.kind = "err"
  THEN push_all(b, Tail(pushes), Append(steps, [kind |-> "err", before |-> b.offset, after |-> b.offset]))
  ELSE push_all(r.val, Tail(pushes),
                Append(steps, [kind |-> "ok", before |-> b.offset, after |-> BlobBuilder_len(r.val)]))
push_all(b, pushes, steps) ==
  IF pushes = <<>> THEN [kind |-> "ok", builder |-> b, steps |-> steps]
  ELSE pushed(b, pushes, steps, push_one(b, pushes[1]))

\* for blob in BlobIter::<Blob>::new(data): the blobs until next() gives None
\* (or panics), and the slice the iterator is left with
RECURSIVE collect(_, _)
collected(data, acc, n) ==
  IF n.kind = "some" THEN collect(n.rest, Append(acc, n.item))
  ELSE [kind |-> n.kind, items |-> acc, rest |-> data]
collect(data, acc) == collected(data, acc, BlobIter_next_blob(data))

\* what is read back from the buffer after the pushes: per successful push
\* the bytes it wrote and Blob::from_bytes(&buffer[before..]); then BlobIter
\* over &buffer[..len()], a slice that does not exist when len() is past the
\* end of the buffer
read_back(r, cap) ==
  IF r.kind = "panic" THEN [kind |-> "panic", steps |-> r.steps]
  ELSE [kind |-> "ok",
        len |-> BlobBuilder_len(r.builder),
        steps |-> [i \in 1..Len(r.steps) |->
                    IF r.steps[i].kind # "ok" THEN r.steps[i]
                    ELSE [kind |-> "ok", before |-> r.steps[i].before, after |-> r.steps[i].after,
                          written |-> SubSeq(BufTake(r.builder.buffer, cap), r.steps[i].before + 1,
                                             IF r.steps[i].after > cap THEN cap ELSE r.steps[i].after),
                          blob |-> Blob_from_bytes(Drop(BufTake(r.builder.buffer, cap), r.steps[i].before))]],
        iter |-> IF BlobBuilder_len(r.builder) > cap THEN Panic("slice index")
                 ELSE collect(BufTake(r.builder.buffer, BlobBuilder_len(r.builder)), <<>>)]

\* BlobBuilder::from_bytes on a zeroed buffer of cap bytes, the pushes, the
\* read back
Build ==
  /\ pc = "codec"
  /\ call.op = "build"
  /\ Return(read_back(push_all(BlobBuilder_from_bytes(ZeroBuf(call.cap)), call.pushes, <<>>), call.cap))
  /\ UNCHANGED <<peer, sequence, rx, closed, tx, nsent, call, rxlog, nread, callbacks, ncalls>>

\* bounds: the pushes on one builder and the bytes of a payload
MaxPushes == 2
MaxPayload == 5

\* the pushes tried: ids 0, 3 and 127 with payloads of 0..MaxPayload bytes, id
\* 128, and scenario S3
Pushes ==
  {[push |-> "bytes", id |-> id, n |-> n] : id \in {0, 3, 127}, n \in 0..MaxPayload}
  \cup {[push |-> "bytes", id |-> 128, n |-> 1], [push |-> "u32", id |-> 3, val |-> 16909060]}
PushSeqs == UNION {[1..k -> Pushes] : k \in 0..MaxPushes}
\* buffers with room for everything, and shorter ones; and the first payload
\* too long for the 24-bit size of a tag, in a buffer with room for it
BuildCalls ==
  {[op |-> "build", cap |-> cap, pushes |-> ps] : cap \in {14, 16, 32}, ps \in PushSeqs}
  \cup {[op |-> "build", cap |-> LEN_MASK + 17, pushes |-> <<[push |-> "bytes", id |-> 3, n |-> LEN_MASK - 3]>>]}

\* BlobIter::new on a byte region, next() until it gives None
Iterate ==
  /\ pc = "codec"
  /\ call.op = "iter"
  /\ Return(collect(call.bytes, <<>>))
  /\ UNCHANGED <<peer, sequence, rx, closed, tx, nsent, call, rxlog, nread, callbacks, ncalls>>

\* blob.try_into() / T::from(blob) on what Blob::from_bytes gave: the blob
\* itself, a number of size bytes, or a BlobMsg
try_into(r, into) ==
  IF r.kind # "ok" THEN r
  ELSE CASE into.t = "Blob" -> r
         [] into.t = "number" -> try_into_number(r.val, into.size, into.signed)
         [] into.t = "BlobMsg" -> BlobMsg_from(r.val)

\* Blob::from_bytes, then the conversion
Convert ==
  /\ pc = "codec"
  /\ call.op = "convert"
  /\ Return(try_into(Blob_from_bytes(call.bytes), call.into))
  /\ UNCHANGED <<peer, sequence, rx, closed, tx, nsent, call, rxlog, nread, callbacks, ncalls>>

\* the regions iterated: nothing or one whole blob, followed by nothing, by
\* fewer than 4 bytes, by a tag of size 3 or 0, by a tag announcing more than
\* is left, by a blob of size 5 or 6 with all, part or none of its padding
IterCalls ==
  {[op |-> "iter", bytes |-> head \o tail] :
     head \in {<<>>, EncBlob(3, <<1, 2, 3, 4>>)},
     tail \in {<<>>, <<1, 0>>, <<1, 0, 0>>, <<1, 0, 0, 3>>, <<1, 0, 0, 0>>, <<1, 0, 0, 12, 1, 2>>,
               <<1, 0, 0, 5, 170>>, <<1, 0, 0, 5, 170, 0, 0, 0>>, <<1, 0, 0, 6, 170, 187, 0>>}}

\* a conversion: the bytes parsed, the type asked for, and what the bytes were
\* encoded from ([id, name, data], or None for bytes given as they are)
ConvertCall(bytes, into, src) == [op |-> "convert", bytes |-> bytes, into |-> into, src |-> src]

\* integers of 1, 2, 4 and 8 bytes, signed and unsigned, from data of 0 to 9 bytes
NumberCalls ==
  {ConvertCall(EncBlob(BLOBMSG_INT32, data), [t |-> "number", size |-> w, signed |-> sg],
               Some([id |-> BLOBMSG_INT32, name |-> None, data |-> data])) :
     w \in {1, 2, 4, 8}, sg \in BOOLEAN,
     data \in {<<>>, <<255>>, <<1, 2>>, <<128, 0, 1>>, <<1, 2, 3, 4>>, <<255, 254, 253, 252, 251>>,
               <<255, 255, 255, 254, 0, 0, 0, 1>>, <<1, 2, 3, 4, 5, 6, 7, 8, 9>>}}

\* extended blobs as the format lays them out (scenario S2 among them), and
\* extended blobs with an inner length of 0, 1 and 2, a name length past the
\* payload, a terminator that is not 0, a name that is not UTF-8, and a name
\* without the padding after it
BlobCalls ==
  {ConvertCall(EncNamed(3, name, data), [t |-> "Blob"], Some([id |-> 3, name |-> Some(name), data |-> data])) :
     name \in {<<>>, <<97>>, <<110, 97, 109, 101>>, <<195, 169>>},
     data \in {<<>>, <<1, 2, 3, 4>>, <<9>>}}
  \cup {ConvertCall(bytes, [t |-> "Blob"], None) :
          bytes \in {<<131, 0, 0, 4>>, <<131, 0, 0, 5, 0>>, <<131, 0, 0, 6, 0, 0>>,
                     <<131, 0, 0, 8, 0, 9, 97, 0>>, <<131, 0, 0, 8, 0, 1, 97, 1>>,
                     <<131, 0, 0, 8, 0, 1, 255, 0>>, <<131, 0, 0, 7, 0, 0, 0>>}}

\* blob-messages of every id the format names and of ids it does not, with and
\* without a name, on 8 bytes every typed id can decode ("abcdefg" and a NUL);
\* and the DOUBLE 1.0
MsgCalls ==
  {ConvertCall(EncBlob(id, <<97, 98, 99, 100, 101, 102, 103, 0>>), [t |-> "BlobMsg"],
               Some([id |-> id, name |-> None, data |-> <<97, 98, 99, 100, 101, 102, 103, 0>>])) :
     id \in 0..9 \cup {127}}
  \cup {ConvertCall(EncNamed(id, <<97>>, <<97, 98, 99, 100, 101, 102, 103, 0>>), [t |-> "BlobMsg"],
                    Some([id |-> id, name |-> Some(<<97>>), data |-> <<97, 98, 99, 100, 101, 102, 103, 0>>])) :
          id \in 0..9 \cup {127}}
  \cup {ConvertCall(EncBlob(BLOBMSG_DOUBLE, <<63, 240, 0, 0, 0, 0, 0, 0>>), [t |-> "BlobMsg"],
                    Some([id |-> BLOBMSG_DOUBLE, name |-> None, data |-> <<63, 240, 0, 0, 0, 0, 0, 0>>]))}

\* the tags decoded: first bytes with and without bit 7, sizes around 4, around
\* the byte boundaries and up to the largest
TagCalls ==
  {[op |-> "tag", bytes |-> <<b>> \o size] :
     b \in {0, 3, 32, 127, 128, 131, 255},
     size \in {<<0, 0, k>> : k \in 0..8}
              \cup {<<0, 0, 255>>, <<0, 1, 0>>, <<1, 2, 3>>, <<255, 255, 253>>, <<255, 255, 254>>, <<255, 255, 255>>}}

\* the tags built: ids up to 0xFFFFFFFF (the word -1), lengths up to 2^31 - 1
NewCalls ==
  {[op |-> "tag_new", id |-> id, len |-> len] :
     id \in {0, 1, 3, 127, 128, 255, 2147483647, -1},
     len \in {0, 3, 4, 5, 8, 65535, 16777215, 16777216, 2147483647}}

CodecCalls ==
  TagCalls \cup NewCalls \cup BuildCalls \cup IterCalls \cup NumberCalls \cup BlobCalls \cup MsgCalls

InitCodec ==
  \E c \in CodecCalls :
    /\ pc = "codec"
    /\ peer = 0
    /\ sequence = 0
    /\ rx = <<>>
    /\ closed = FALSE
    /\ tx = <<>>
    /\ nsent = 0
    /\ call = c
    /\ rxlog = <<>>
    /\ nread = 0
    /\ callbacks = <<>>
    /\ result = Pending
    /\ ncalls = 0

NextCodec ==
  \/ TagDecode
  \/ TagNew
  \/ Build
  \/ Iterate
  \/ Convert

SpecCodec == InitCodec /\ [][NextCodec]_vars

(***************************************************************************)
(* The builders on their own: MessageBuilder::new, put and finish          *)
(* (src/src/message.rs:116-166) and the BlobBuilder pushes under them      *)
(* (src/src/blob.rs:86-122) on caller buffers of given lengths, and what   *)
(* the parser reads back from the bytes they wrote.                        *)
(***************************************************************************)
\* the blob a put wrote behind the header and the outer tag, parsed again:
\* Blob::from_bytes(&buffer[12..]) and MessageAttr::from on it
put_read(offset, blob) ==
  IF blob.kind # "ok" THEN blob
  ELSE [kind |-> "ok", offset |-> offset, id |-> tag_id(blob.val.tag), attr |-> MessageAttr_from(blob.val)]
put_decoded(r, at) ==
  IF r.kind # "ok" THEN r
  ELSE put_read(r.val.offset, Blob_from_bytes(Drop(BufTake(r.val.buffer, BufLen(r.val.buffer)), at)))

\* MessageBuilder::new on a zeroed buffer of cap bytes, one put, the read back
Put ==
  /\ pc = "codec"
  /\ call.op = "put"
  /\ Return(put_decoded(then_put(MessageBuilder_new(ZeroBuf(call.cap), call.header), call.attr),
                        HEADER_SIZE + TAG_SIZE))
  /\ UNCHANGED <<peer, sequence, rx, closed, tx, nsent, call, rxlog, nread, callbacks, ncalls>>

\* message.put(attr)? for each attribute in turn
RECURSIVE put_all(_, _)
put_all(r, attrs) ==
  IF attrs = <<>> \/ r.kind # "ok" THEN r
  ELSE put_all(then_put(r, attrs[1]), Tail(attrs))

\* for attr in BlobIter::<MessageAttr>::new(data): the attributes until next()
\* gives None (or panics)
RECURSIVE collect_attrs(_, _)
attrs_collected(data, acc, n) ==
  IF n.kind = "some" THEN collect_attrs(n.rest, Append(acc, n.item))
  ELSE [kind |-> n.kind, items |-> acc]
collect_attrs(data, acc) == attrs_collected(data, acc, BlobIter_next_attr(data))

\* Message::from_io on a transport that holds the slice and then closes, and
\* the attributes of the message it gives
message_read(io) ==
  IF io.res.kind # "ok" THEN [res |-> io.res, nread |-> io.nread]
  ELSE [res |-> io.res, nread |-> io.nread, rest |-> io.rest,
        attrs |-> collect_attrs(io.res.val.blob.data, <<>>)]

\* what finish returned for a builder at this offset, and the slice read back
finished(offset, slice) ==
  IF slice.kind # "ok" THEN [kind |-> slice.kind, built |-> Ok(offset), finish |-> slice]
  ELSE [kind |-> "ok", built |-> Ok(offset), finish |-> slice,
        read |-> message_read(from_io(slice.val, BUFFER_LEN))]
message_built(r) ==
  IF r.kind # "ok" THEN [kind |-> r.kind, built |-> r]
  ELSE finished(r.val.offset, MessageBuilder_finish(r.val))

\* MessageBuilder::new on a zeroed buffer of cap bytes, the puts while they
\* succeed, finish, and Message::from_io on the slice
BuildMessage ==
  /\ pc = "codec"
  /\ call.op = "message"
  /\ Return(message_built(put_all(MessageBuilder_new(ZeroBuf(call.cap), call.header), call.attrs)))
  /\ UNCHANGED <<peer, sequence, rx, closed, tx, nsent, call, rxlog, nread, callbacks, ncalls>>

\* bound: the attributes put into one message
MaxPuts == 3

\* the attributes of the messages built: those of an invoke request (lines
\* 84-86 of src/src/connection.rs), a status, a path, and a payload of 5 bytes
MessageAttrs(i) ==
  CASE i = 1 -> Attr("ObjId", 42)
    [] i = 2 -> Attr("Method", <<97>>)
    [] i = 3 -> Attr("Data", <<>>)
    [] i = 4 -> Attr("Status", 6)
    [] i = 5 -> Attr("ObjPath", <<97, 98, 99>>)
    [] i = 6 -> Attr("Data", <<1, 2, 3, 4, 5>>)
\* buffers too short for the header and the outer tag, with room for nothing
\* else, and with room for some or all of the attributes
MessageCalls ==
  {[cap |-> cap, header |-> Header(VERSION_CURRENT, type, 258, -2), picks |-> picks] :
     cap \in {11, 12, 17, 20, 27, 28, 64}, type \in {INVOKE, LOOKUP},
     picks \in UNION {[1..k -> 1..6] : k \in 0..MaxPuts}}
MessageCall(c) ==
  [op |-> "message", cap |-> c.cap, header |-> c.header,
   attrs |-> [j \in 1..Len(c.picks) |-> MessageAttrs(c.picks[j])]]

\* the attributes put, every kind put implements among them: numbers up to
\* the top bit; strings empty, short, and with a NUL of their own at the end,
\* and payloads of 0, 3 and 4 bytes; booleans
PutNumbers ==
  {Attr("Status", v) : v \in {0, 6, -1}}
  \cup {Attr(t, v) : t \in {"ObjId", "ObjType", "Target"}, v \in {0, 42, -1}}
PutBytes ==
  {Attr(t, v) : t \in {"ObjPath", "Method", "User", "Group"},
                v \in {<<>>, <<97>>, <<97, 98, 99>>, <<195, 169>>, <<97, 0>>}}
  \cup {Attr("Data", v) : v \in {<<>>, <<1, 2, 3>>, <<1, 2, 3, 4>>}}
PutBools == {Attr(t, v) : t \in {"Active", "NoReply"}, v \in BOOLEAN}

\* one put of the attribute a into a buffer with room for it
PutCall(a) == [op |-> "put", cap |-> 64, header |-> Header(VERSION_CURRENT, INVOKE, 1, 42), attr |-> a]

\* the call c about to be made
CallOf(c) ==
  /\ pc = "codec"
  /\ peer = 0
  /\ sequence = 0
  /\ rx = <<>>
  /\ closed = FALSE
  /\ tx = <<>>
  /\ nsent = 0
  /\ call = c
  /\ rxlog = <<>>
  /\ nread = 0
  /\ callbacks = <<>>
  /\ result = Pending
  /\ ncalls = 0

\* the four pushes on buffers of 0 to 9 and of 12 bytes: payloads of 0, 1, 3,
\* 4 and 5 bytes
SmallPushes ==
  {[push |-> "bytes", id |-> 7, n |-> n] : n \in {0, 5}}
  \cup {[push |-> "u32", id |-> 3, val |-> 16909060], [push |-> "bool", id |-> 9, flag |-> TRUE]}
  \cup {[push |-> "str", id |-> 2, str |-> str] : str \in {<<>>, <<97, 98>>}}
SmallPushSeqs == UNION {[1..k -> SmallPushes] : k \in 1..MaxPushes}
SmallBuildCalls ==
  {[op |-> "build", cap |-> cap, pushes |-> ps] : cap \in 0..9 \cup {12}, ps \in SmallPushSeqs}

InitBuilder ==
  \/ \E a \in PutNumbers : CallOf(PutCall(a))
  \/ \E a \in PutBytes : CallOf(PutCall(a))
  \/ \E a \in PutBools : CallOf(PutCall(a))
  \/ \E c \in SmallBuildCalls : CallOf(c)
  \/ \E c \in MessageCalls : CallOf(MessageCall(c))

NextBuilder ==
  \/ Put
  \/ Build
  \/ BuildMessage

SpecBuilder == InitBuilder /\ [][NextBuilder]_vars

(***************************************************************************)
(* The wire as the protocol describes it, read off the raw bytes without   *)
(* the library's parser: what the properties below compare the driver to.  *)
(***************************************************************************)
\* the header at the front of the stream s
WireHeader(s) == Header(s[1], s[2], s[3] * 256 + s[4], BE32(SubSeq(s, 5, 8)))
\* the 24-bit size and the extended bit of the outer tag that follows it
WireSize(s) == (s[10] * 256 + s[11]) * 256 + s[12]
WireExtended(s) == s[9] >= 128

\* the attributes of a payload of plain (not extended) blobs: id and payload of each
\* the bytes that pad a blob of this size to a multiple of 4
WirePad(size) == (4 - (size % 4)) % 4
RECURSIVE WireAttrs(_)
WireAttrsAt(bytes, id, size) ==
  IF size < 4 \/ size > Len(bytes) THEN <<>>
  ELSE <<[id |-> id, payload |-> SubSeq(bytes, 5, size)]>>
       \o (IF size + WirePad(size) >= Len(bytes) THEN <<>>
           ELSE WireAttrs(SubSeq(bytes, size + WirePad(size) + 1, Len(bytes))))
WireAttrs(bytes) ==
  IF Len(bytes) < 4 THEN <<>>
  ELSE WireAttrsAt(bytes, bytes[1] % 128, (bytes[2] * 256 + bytes[3]) * 256 + bytes[4])

\* the payloads of the attributes with this id, in wire order
WithId(attrs, id) == SelectSeq(attrs, LAMBDA a : a.id = id)

\* the call in progress or last returned is an exchange, and it is still running
Exchange == call.op \in {"invoke", "lookup"}
Running == pc \in {"invoke", "lookup"}
\* a received message carries the sequence of the call's request
Matching(m) == m.header.sequence = call.sequence
MatchingOf(m, type) == Matching(m) /\ m.header.message = type

(***************************************************************************)
(* Properties of the connection driver                                     *)
(***************************************************************************)
\* what the handshake must do on the first frame at the front of the stream s
C1_accepted(s) ==
  WireHeader(s).version = 0 /\ WireSize(s) >= 4 /\ WireHeader(s).message = HELLO
C1_handshake(s) ==
  IF C1_accepted(s)
  THEN /\ result'.kind = "ok"
       /\ pc' = "idle"
       /\ peer' = WireHeader(s).peer
       /\ sequence' = 0
       /\ rx' = SubSeq(s, 8 + WireSize(s) + 1, Len(s))
  ELSE /\ result'.kind = "err"
       /\ result'.err = "InvalidData"
       /\ pc' = "failed"

\* C1: Connection::new reads exactly one frame and succeeds if and only if
\* that frame has version 0, a valid outer tag and type HELLO; on success the
\* peer is the frame's header.peer and the sequence counter is 0; for any
\* other first frame it returns InvalidData and there is no connection.
C1_NewAcceptsExactlyHello ==
  [][pc = "start" /\ pc' # "start" /\ Len(rx) >= 12 => C1_handshake(rx)]_vars

\* the first STATUS attribute of a message decides what the call returns
C2_decided(r, status) ==
  IF status = <<>> THEN r.kind = "err" /\ r.err = "InvalidData"
  ELSE IF BE32(status[1].payload) = 0 THEN r.kind = "ok"
  ELSE r = StatusErr(BE32(status[1].payload))
C2_status(m) == WithId(WireAttrs(m.blob.data), ATTR_STATUS)
C2_zero(status) == status # <<>> /\ BE32(status[1].payload) = 0

\* C2: in invoke and lookup a STATUS frame with the request's sequence ends the
\* call at once: success if its STATUS attribute is 0, Err(Status(code)) if it
\* is a nonzero code, InvalidData if it has no STATUS attribute; and the call
\* never returns success without such a STATUS = 0 frame.
C2_StatusFrameDecides ==
  Exchange =>
    /\ \A i \in 1..Len(rxlog) :
         MatchingOf(rxlog[i], STATUS) =>
           i = Len(rxlog) /\ ~Running /\ C2_decided(result, C2_status(rxlog[i]))
    /\ result.kind = "ok" =>
         rxlog # <<>> /\ MatchingOf(rxlog[Len(rxlog)], STATUS) /\ C2_zero(C2_status(rxlog[Len(rxlog)]))

\* a lookup answered Status(6) after at least one other frame of the exchange
C2_Witness ==
  call.op = "lookup" /\ result = StatusErr(6) /\ Len(rxlog) >= 2

\* a frame the exchange has to ignore
C3_ignored(m) == ~Matching(m) \/ m.header.message \notin {STATUS, DATA}

\* C3: during invoke or lookup every frame received (returned by
\* next_message) whose sequence differs from the request's, whatever its type,
\* and every matching frame that is neither STATUS nor DATA is ignored: no
\* callback, the exchange does not end, the driver goes on reading.
C3_OtherFramesIgnored ==
  [][Running /\ rxlog' # rxlog /\ C3_ignored(rxlog'[Len(rxlog')]) =>
       callbacks' = callbacks /\ pc' = pc /\ result' = result]_vars

\* an exchange still running that has read a STATUS frame of another sequence
\* and a PING frame of its own
C3_Witness ==
  /\ Running
  /\ \E i \in 1..Len(rxlog) : ~Matching(rxlog[i]) /\ rxlog[i].header.message = STATUS
  /\ \E i \in 1..Len(rxlog) : MatchingOf(rxlog[i], PING)

\* the on_result calls the DATA frames among the messages ask for
C4_data(m) == WithId(WireAttrs(m.blob.data), ATTR_DATA)
C4_calls(frames) ==
  [i \in 1..Len(frames) |-> [cb |-> "on_result", data |-> C4_data(frames[i])[1].payload]]
C4_expected(log) ==
  C4_calls(SelectSeq(log, LAMBDA m : MatchingOf(m, DATA) /\ C4_data(m) # <<>>))

\* C4: invoke calls on_result exactly once for each DATA frame of its sequence
\* that carries a DATA attribute, in arrival order, before it returns, and for
\* no other frame.
C4_OnResultPerDataFrame ==
  call.op = "invoke" => callbacks = C4_expected(rxlog)

\* an invoke that returned success after two DATA frames
C4_Witness ==
  call.op = "invoke" /\ result.kind = "ok" /\ Len(callbacks) = 2

\* C5: one outstanding request: a call writes at most one frame, writes it
\* before it reads anything, and nothing more is written until it has returned.
C5_OneOutstandingRequest ==
  [][/\ Len(tx') <= Len(tx) + 1
     /\ tx' # tx => pc = "idle" /\ ncalls' = ncalls + 1 /\ rx' = rx /\ nread' = 0
     /\ Running => tx' = tx
     /\ Running' /\ ~Running => Len(tx') = Len(tx) + 1
     /\ Len(rx') < Len(rx) /\ pc # "start" => Running]_vars

\* the second call of a connection, its request written, reading replies
C5_Witness ==
  Running /\ Len(tx) = 2 /\ nread > 0 /\ ncalls = 2

\* the sequence stamped on a request frame
C6_stamp(f) == f[3] * 256 + f[4]

\* C6: the sequence counter is 0 after the handshake and goes up by one at the
\* start of every invoke or lookup, failing or not: the k-th call stamps the
\* request it sends with k, and no value is reused or decreased.
C6_SequenceCountsCalls ==
  /\ pc # "start" /\ pc # "failed" => sequence = ncalls
  /\ Exchange => call.sequence = ncalls
  /\ Running => C6_stamp(tx[Len(tx)]) = ncalls
  /\ \A i \in 1..Len(tx) :
       /\ C6_stamp(tx[i]) \in 1..ncalls
       /\ i > 1 => C6_stamp(tx[i - 1]) < C6_stamp(tx[i])

\* call 65534 wrote its request, call 65535 failed to write: the counter is
\* 65535 all the same
C6_Witness ==
  /\ ncalls = U16 - 1
  /\ sequence = U16 - 1
  /\ Len(tx) = 1
  /\ C6_stamp(tx[1]) = U16 - 2
  /\ result = IOErr

\* the frame f is the INVOKE request of the call c
C7_attributes(attrs, c) ==
  /\ Len(attrs) = 3
  /\ attrs[1] = [id |-> 3, payload |-> ToBE32(c.obj)]
  /\ attrs[2] = [id |-> 4, payload |-> c.method \o <<0>>]
  /\ attrs[3].id = 7
C7_request(f, c) ==
  /\ Len(f) >= 12
  /\ WireHeader(f) = Header(0, 5, c.sequence, c.obj)
  /\ f[9] = 0
  /\ WireSize(f) = Len(f) - 8
  /\ C7_attributes(WireAttrs(SubSeq(f, 13, Len(f))), c)

\* C7: the frame invoke sends has version 0, type INVOKE (5), the freshly
\* incremented sequence, peer = obj_id, and an outer blob with id 0 holding, in
\* this order, OBJID (3) with obj_id as a big-endian u32, METHOD (4) with the
\* method bytes and a NUL, and a DATA attribute (7).
C7_InvokeRequestFrame ==
  pc = "invoke" => C7_request(tx[Len(tx)], call) /\ call.sequence = sequence

\* a request for object 0xFFFFFFFF with the longest method name that fits
C7_Witness ==
  pc = "invoke" /\ call.obj = -1 /\ Len(call.method) = 995 /\ Len(tx[Len(tx)]) = SCRATCH_LEN

\* the payload of the DATA attribute of a request frame
C8_payload(f) == WithId(WireAttrs(SubSeq(f, 13, Len(f))), ATTR_DATA)[1].payload
\* the call c was followed by a call that differs from it in args only
C8_differs(c, d) ==
  c.op = "invoke" /\ c.obj = d.obj /\ c.method = d.method /\ c.args # d.args

\* C8: the DATA attribute of the request carries the encoding of args: it is
\* not empty when args is not, and two calls that differ only in args send
\* different DATA payloads.
C8_DataCarriesArgs ==
  [][pc = "idle" /\ pc' = "invoke" =>
       /\ call'.args # <<>> => C8_payload(tx'[Len(tx')]) # <<>>
       /\ C8_differs(call, call') /\ tx # <<>> =>
            C8_payload(tx[Len(tx)]) # C8_payload(tx'[Len(tx')])]_vars

\* the callbacks the description of the object o asks for
C9_object(o) == [path |-> o.path, id |-> o.id, ty |-> o.ty]
C9_signatures(o, methods) ==
  [i \in 1..Len(methods) |->
     [cb |-> "on_signature", object |-> C9_object(o), name |-> methods[i].name, args |-> methods[i].args]]
C9_described(o) ==
  <<[cb |-> "on_object", object |-> C9_object(o)]>>
  \o C9_signatures(o, SelectSeq(o.entries, LAMBDA e : e.table))
\* the frames of the exchange that describe an object, and the object each describes
C9_describes(m) == MatchingOf(m, DATA) /\ \E o \in Objects : m.blob.data = EncObject(o)
C9_objectOf(m) == CHOOSE o \in Objects : m.blob.data = EncObject(o)
RECURSIVE C9_expected(_)
C9_expected(frames) ==
  IF frames = <<>> THEN <<>>
  ELSE C9_described(C9_objectOf(frames[1])) \o C9_expected(Tail(frames))
\* every DATA frame of the exchange so far describes an object or has no SIGNATURE
C9_wellFormed(log) ==
  \A i \in 1..Len(log) :
    MatchingOf(log[i], DATA) =>
      C9_describes(log[i]) \/ WithId(WireAttrs(log[i].blob.data), ATTR_SIGNATURE) = <<>>

\* C9: in lookup each DATA frame of the request's sequence with OBJPATH, OBJID
\* and OBJTYPE followed by SIGNATURE gives one on_object with {path, id, type}
\* and then one on_signature per TABLE entry of the signature, in wire order,
\* each with that object, the entry's name and its (argument name, type id)
\* pairs; on_object always comes before the on_signature calls of its object.
C9_LookupCallbacks ==
  call.op = "lookup" =>
    /\ C9_wellFormed(rxlog) => callbacks = C9_expected(SelectSeq(rxlog, C9_describes))
    /\ \A j \in 1..Len(callbacks) :
         callbacks[j].cb = "on_signature" =>
           \E i \in 1..(j - 1) :
             callbacks[i].cb = "on_object" /\ callbacks[i].object = callbacks[j].object

\* a lookup that returned success after the object with three signature entries
\* and one more object
C9_Witness ==
  /\ call.op = "lookup"
  /\ result.kind = "ok"
  /\ Len(callbacks) >= 4
  /\ \E j \in 1..Len(callbacks) : callbacks[j].cb = "on_signature" /\ Len(callbacks[j].args) = 2

\* what from_io has to have done with the stream s when it is back
C10_rejected(s) ==
  /\ result.kind = "err"
  /\ result.err = "InvalidData"
  /\ nread = 12
  /\ rx = SubSeq(s, 13, Len(s))
C10_completed(s) ==
  /\ pc = "returned"
  /\ result.kind \in {"ok", "err"}
  /\ nread = 12 + (WireSize(s) - 4)
  /\ rx = SubSeq(s, 8 + WireSize(s) + 1, Len(s))
  /\ result.kind = "ok" =>
       /\ result.val.header = WireHeader(s)
       /\ tag_size(result.val.blob.tag) = WireSize(s)
       /\ result.val.blob.data = SubSeq(s, 13, 8 + WireSize(s))

\* C10: Message::from_io reads 12 bytes; with a version other than 0 or a tag
\* size below 4 it returns InvalidData having consumed those 12 bytes; otherwise,
\* for every tag size from 4 to 16777215, it reads exactly size - 4 further bytes
\* and returns a Message with the decoded header whose outer blob covers those
\* bytes, or an error value.  Stated for outer tags without the extended bit,
\* whose blob is the bytes read as they are.
C10_FromIoReadsOneFrame ==
  call.op = "next_message" /\ pc # "from_io" /\ ~WireExtended(call.stream) =>
    IF call.stream[1] # 0 \/ WireSize(call.stream) < 4
    THEN C10_rejected(call.stream)
    ELSE C10_completed(call.stream)

\* the call returned a bus status error
C11_status(r) == r.kind = "err" /\ r.err = "Status"
\* the step that returns it took the STATUS frame at the front of the
\* transport, that frame only, and left the connection as it was
C11_returned ==
  /\ pc' = "idle"
  /\ peer' = peer
  /\ sequence' = sequence
  /\ tx' = tx
  /\ Len(rx) >= 12
  /\ WireHeader(rx).message = STATUS
  /\ WireHeader(rx).sequence = call.sequence
  /\ rx' = SubSeq(rx, 8 + WireSize(rx) + 1, Len(rx))
\* the call started after it: the counter one higher, the request written
C11_next ==
  /\ peer' = peer
  /\ sequence' = sequence + 1
  /\ call'.sequence = sequence + 1
  /\ ~closed =>
       /\ Running'
       /\ result' = Pending
       /\ rx' = rx
       /\ Len(tx') = Len(tx) + 1
       /\ C6_stamp(tx'[Len(tx')]) = sequence + 1

\* C11: a bus-status error does not affect the connection: when invoke or
\* lookup returns Err(Status(code)) the peer id of the handshake is unchanged
\* and the transport has been consumed exactly up to the end of the STATUS
\* frame; the next invoke or lookup proceeds normally with the sequence counter
\* one higher; and no step after Connection::new ever changes the peer id.
C11_StatusErrorLeavesConnection ==
  [][/\ pc # "start" => peer' = peer
     /\ Running /\ C11_status(result') => C11_returned
     /\ pc = "idle" /\ Exchange /\ C11_status(result) /\ ncalls' = ncalls + 1 => C11_next]_vars

\* the second call of a connection returned success; the first, under
\* SpecStatus, returned Err(Status(6))
C11_Witness ==
  /\ ncalls = 2
  /\ pc = "idle"
  /\ result.kind = "ok"
  /\ sequence = 2
  /\ peer = 42
  /\ Len(tx) = 2

\* a get on the closed transport holding s fails: fewer than the 12 bytes of
\* header and tag are there, or fewer than the payload the tag announces
C12_getFails(s) ==
  \/ Len(s) < 12
  \/ s[1] = 0 /\ WireSize(s) >= 4 /\ WireSize(s) <= BUFFER_LEN - 8 /\ Len(s) < 8 + WireSize(s)
\* the call is back with the transport's error, nothing written, no callback
C12_failed ==
  /\ result' = IOErr
  /\ pc' = "idle"
  /\ tx' = tx

\* C12: transport errors are propagated as they are and end the call: if put
\* fails while the request is sent, invoke and lookup return that IO error
\* without reading any frame and without any callback; if a get fails while a
\* reply frame is read, the call returns that IO error at once and performs no
\* further transport operation.
C12_TransportErrorsEndCall ==
  [][/\ pc = "idle" /\ closed /\ ncalls' = ncalls + 1 =>
          C12_failed /\ rx' = rx /\ nread' = 0 /\ rxlog' = <<>> /\ callbacks' = <<>>
     /\ Running /\ closed /\ C12_getFails(rx) =>
          C12_failed /\ rxlog' = rxlog /\ callbacks' = callbacks
     /\ Exchange /\ result = IOErr /\ ncalls' = ncalls => rx' = rx /\ tx' = tx]_vars

\* an invoke that read a DATA frame, gave it to on_result, and then met the
\* end of the transport 14 bytes into the next frame
C12_Witness ==
  /\ call.op = "invoke"
  /\ result = IOErr
  /\ Len(callbacks) = 1
  /\ nread = Len(DataFrame(1, 5)) + 14
  /\ Len(tx) = 1

\* the stream s starts with a whole frame that Message::from_io accepts: of
\* the current version, its outer tag plain and within the receive buffer
C24_frame(s) ==
  /\ Len(s) >= 12
  /\ s[1] = VERSION_CURRENT
  /\ ~WireExtended(s)
  /\ WireSize(s) >= 4
  /\ WireSize(s) <= BUFFER_LEN - 8
  /\ Len(s) >= 8 + WireSize(s)
\* that frame is of type DATA, of the call's sequence, without a DATA attribute
C24_dataless(s) ==
  /\ C24_frame(s)
  /\ WireHeader(s).message = DATA
  /\ WireHeader(s).sequence = call.sequence
  /\ WithId(WireAttrs(SubSeq(s, 13, 8 + WireSize(s))), ATTR_DATA) = <<>>
\* invoke has returned InvalidData for such a frame
C24_returned == call.op = "invoke" /\ pc = "idle" /\ result = InvalidData("Invalid data message")

\* C24: in invoke a DATA frame of the request's sequence without a DATA
\* attribute makes invoke return InvalidData at once: no on_result for that
\* frame, that frame and nothing after it taken from the transport, and once
\* returned the call reads no further frame, so that the STATUS frame of the
\* exchange stays on the transport unread.
C24_DataWithoutAttrEndsInvoke ==
  [][/\ pc = "invoke" /\ Len(rx') < Len(rx) /\ C24_dataless(rx) =>
          /\ result' = InvalidData("Invalid data message")
          /\ pc' = "idle"
          /\ callbacks' = callbacks
          /\ rx' = SubSeq(rx, 8 + WireSize(rx) + 1, Len(rx))
          /\ nread' = nread + 8 + WireSize(rx)
     /\ C24_returned /\ ncalls' = ncalls =>
          /\ C24_returned'
          /\ nread' = nread
          /\ callbacks' = callbacks
          /\ Len(rx') >= Len(rx)
          /\ SubSeq(rx', 1, Len(rx)) = rx]_vars

\* an invoke that gave one DATA frame to on_result, returned InvalidData on
\* the next, which had no DATA attribute, and left the STATUS frame of its
\* sequence at the front of the transport
C24_Witness ==
  /\ C24_returned
  /\ Len(callbacks) = 1
  /\ Len(rxlog) = 2
  /\ C24_frame(rx)
  /\ WireHeader(rx).message = STATUS
  /\ WireHeader(rx).sequence = call.sequence

\* the frame at the front of s is a STATUS frame of the call's sequence
C25_status(s) == WireHeader(s).message = STATUS /\ WireHeader(s).sequence = call.sequence
\* the frame at the front of s makes the call return an error: for invoke, a
\* DATA frame of the call's sequence without a DATA attribute (C24)
C25_refused(s) == call.op = "invoke" /\ C24_dataless(s)
\* among the whole frames the stream s holds there is a STATUS frame of the
\* call's sequence, and (clean) no frame before it that the call refuses
RECURSIVE C25_ahead(_, _)
C25_ahead(s, clean) ==
  IF ~C24_frame(s) THEN FALSE
  ELSE IF C25_status(s) THEN TRUE
  ELSE IF clean /\ C25_refused(s) THEN FALSE
  ELSE C25_ahead(SubSeq(s, 8 + WireSize(s) + 1, Len(s)), clean)
C25_queued == C25_ahead(rx, FALSE)
C25_clean == C25_ahead(rx, TRUE)
\* the result is one a STATUS frame gives (src/src/connection.rs:99-106, 155-162)
C25_decided(r) ==
  r.kind = "ok" \/ (r.kind = "err" /\ r.err = "Status") \/ r = InvalidData("Invalid status message")
\* the step took the STATUS frame of the call's sequence at the front of the
\* transport, and nothing after it
C25_tookStatus ==
  /\ C24_frame(rx)
  /\ C25_status(rx)
  /\ rx' = SubSeq(rx, 8 + WireSize(rx) + 1, Len(rx))
  /\ nread' = nread + 8 + WireSize(rx)

\* C25: once the transport holds a STATUS frame of the request's sequence,
\* invoke and lookup eventually return.  While no frame before it is one the
\* call refuses, the call stays in its loop until the step that takes that
\* frame, which returns what the frame decides and takes nothing after it.  A
\* call returns only in such a step or with an error, so that without a STATUS
\* frame of its sequence and without an error it never returns.
C25_ExchangeTerminates ==
  /\ (Running /\ C25_queued) ~> (pc = "idle")
  /\ [][/\ Running /\ ~Running' =>
             \/ C25_tookStatus /\ C25_decided(result')
             \/ result'.kind = "err" /\ ~C25_decided(result')
        /\ Running /\ C25_clean =>
             \/ Running' /\ C25_clean' /\ result' = Pending
             \/ pc' = "idle" /\ C25_tookStatus /\ C25_decided(result')
        /\ Running /\ Len(rx') < Len(rx) /\ C24_frame(rx) /\ C25_status(rx) =>
             pc' = "idle" /\ C25_decided(result')]_vars

\* a lookup that read a DATA frame, then the STATUS frame of its sequence, and
\* returned success with nothing of the transport left unread
C25_Witness ==
  /\ call.op = "lookup"
  /\ pc = "idle"
  /\ result.kind = "ok"
  /\ Len(rxlog) = 2
  /\ MatchingOf(rxlog[1], DATA)
  /\ MatchingOf(rxlog[2], STATUS)
  /\ rx = <<>>
  /\ nread = Len(DataFrame(call.sequence, 5)) + Len(StatusFrame(call.sequence, 0))

\* the string in the bytes of an OBJPATH attribute: without its final NUL
C26_path(payload) ==
  IF payload # <<>> /\ payload[Len(payload)] = 0 THEN SubSeq(payload, 1, Len(payload) - 1) ELSE payload
\* the objects the attributes of one frame describe, read in wire order: at
\* each SIGNATURE the last OBJPATH, OBJID and OBJTYPE before it, which have to
\* be there for anything to be described from then on
RECURSIVE C26_objects(_, _, _, _)
C26_objects(attrs, path, id, ty) ==
  IF attrs = <<>> THEN <<>>
  ELSE CASE attrs[1].id = ATTR_OBJPATH -> C26_objects(Tail(attrs), Some(C26_path(attrs[1].payload)), id, ty)
         [] attrs[1].id = ATTR_OBJID -> C26_objects(Tail(attrs), path, Some(BE32(attrs[1].payload)), ty)
         [] attrs[1].id = ATTR_OBJTYPE -> C26_objects(Tail(attrs), path, id, Some(BE32(attrs[1].payload)))
         [] attrs[1].id = ATTR_SIGNATURE ->
              IF path = None \/ id = None \/ ty = None THEN <<>>
              ELSE <<[path |-> path[1], id |-> id[1], ty |-> ty[1]]>> \o C26_objects(Tail(attrs), path, id, ty)
         [] OTHER -> C26_objects(Tail(attrs), path, id, ty)
\* the attributes of the frame at the front of the stream s
C26_attrs(s) == WireAttrs(SubSeq(s, 13, 8 + WireSize(s)))
\* that frame is a DATA frame of the call's sequence
C26_data(s) ==
  /\ C24_frame(s)
  /\ WireHeader(s).message = DATA
  /\ WireHeader(s).sequence = call.sequence
\* the objects on_object was called with among the callbacks made after before
C26_reported(before, after) ==
  LET new == SubSeq(after, Len(before) + 1, Len(after))
      calls == SelectSeq(new, LAMBDA c : c.cb = "on_object")
  IN  [j \in 1..Len(calls) |-> calls[j].object]

\* C26: in lookup the collected OBJPATH, OBJID and OBJTYPE start empty at each
\* DATA frame: the objects on_object reports while a DATA frame of the
\* request's sequence is handled are those its own attributes describe, each
\* from the last OBJPATH, OBJID and OBJTYPE before the SIGNATURE in that
\* frame, never from a frame before; and a frame without a SIGNATURE attribute
\* gives no callback at all.
C26_ObjectFromOwnFrame ==
  [][pc = "lookup" /\ Len(rx') < Len(rx) /\ C26_data(rx) =>
       /\ SubSeq(callbacks', 1, Len(callbacks)) = callbacks
       /\ C26_reported(callbacks, callbacks') = C26_objects(C26_attrs(rx), None, None, None)
       /\ WithId(C26_attrs(rx), ATTR_SIGNATURE) = <<>> => callbacks' = callbacks]_vars

\* a lookup that has read the frame of one object, a DATA frame without a
\* SIGNATURE, and the frame of another object, and has reported the two
\* objects, each as its own frame describes it
C26_Witness ==
  /\ call.op = "lookup"
  /\ Len(rxlog) = 3
  /\ C9_describes(rxlog[1])
  /\ MatchingOf(rxlog[2], DATA)
  /\ WithId(WireAttrs(rxlog[2].blob.data), ATTR_SIGNATURE) = <<>>
  /\ C9_describes(rxlog[3])
  /\ C9_objectOf(rxlog[1]) # C9_objectOf(rxlog[3])
  /\ C26_reported(<<>>, callbacks) = <<C9_object(C9_objectOf(rxlog[1])), C9_object(C9_objectOf(rxlog[3]))>>

(***************************************************************************)
(* Properties of the codec                                                 *)
(***************************************************************************)
\* the call of the codec function op has returned
Called(op) == call.op = op /\ pc # "codec"

\* the 24-bit size in the bytes b of a tag
C13_size(b) == (b[2] * 256 + b[3]) * 256 + b[4]
C13_fields(b, t) ==
  /\ t.id = b[1] % 128
  /\ t.extended = (b[1] >= 128)
  /\ t.size = C13_size(b)
  /\ t.padding = WirePad(C13_size(b))
  /\ t.padding < 4
  /\ t.next_tag = C13_size(b) + t.padding
  /\ t.next_tag % 4 = 0
  /\ t.inner_len = (IF C13_size(b) >= 4 THEN C13_size(b) - 4 ELSE 0)
  /\ t.valid = (C13_size(b) >= 4)

\* C13: for every 32-bit tag word the id is the low seven bits of byte 0, the
\* extended flag is bit 31, the size is the low 24 bits; the padding is
\* (-size) mod 4 and below 4; next_tag = size + padding is a multiple of 4; the
\* inner length is size - 4, saturating at 0; and the tag is valid if and only
\* if size >= 4.
C13_TagFields ==
  Called("tag") => result.kind = "ok" /\ C13_fields(call.bytes, result.val)

\* scenario S1: 20 00 00 08 is id 0x20, size 8, not extended, padding 0, inner
\* length 4
C13_Witness ==
  /\ Called("tag")
  /\ call.bytes = <<32, 0, 0, 8>>
  /\ result = Ok([id |-> 32, size |-> 8, extended |-> FALSE, padding |-> 0,
                  next_tag |-> 8, inner_len |-> 4, valid |-> TRUE])

\* a tag reports this id and size, with the extended flag clear
C14_reports(t, id, size) == t.id = id /\ t.size = size /\ ~t.extended

\* C14: tag encode/decode round-trips: for every id in 0..127 and size in
\* 4..16777215 BlobTag::new succeeds and the tag, also after to_bytes then
\* from_bytes, reports exactly that id and size with the extended flag clear;
\* BlobTag::new returns InvalidData for every id above 127 and every size above
\* 16777215.
C14_TagRoundTrip ==
  Called("tag_new") =>
    /\ call.id \in 0..127 /\ call.len \in 4..16777215 =>
         /\ result.kind = "ok"
         /\ C14_reports(result.val.tag, call.id, call.len)
         /\ C14_reports(result.val.back, call.id, call.len)
    /\ call.id \notin 0..127 \/ call.len > 16777215 =>
         result.kind = "err" /\ result.err = "InvalidData"

\* the largest id with the largest size, read back
C14_Witness ==
  /\ Called("tag_new")
  /\ call.id = 127
  /\ call.len = 16777215
  /\ result.kind = "ok"
  /\ result.val.back.id = 127
  /\ result.val.back.size = 16777215

\* the payload a push writes
C15_payload(p) == IF p.push = "bytes" THEN Payload(p.n) ELSE ToBE32(p.val)
\* the buffer has room for the tag and the payload of the push p at before
C15_room(p, before) == call.cap - before >= 4 + (IF p.push = "bytes" THEN p.n ELSE 4)
\* the blob read back is the one pushed
C15_blob(blob, p) ==
  /\ tag_id(blob.tag) = p.id
  /\ ~is_extended(blob.tag)
  /\ blob.data = C15_payload(p)
  /\ blob.name = None
\* the push p round-trips in the step st
C15_roundTrip(p, st) ==
  /\ st.kind = "ok"
  /\ st.after - st.before = 4 + Len(C15_payload(p)) + WirePad(Len(C15_payload(p)))
  /\ st.blob.kind = "ok"
  /\ C15_blob(st.blob.val, p)
  /\ p = [push |-> "u32", id |-> 3, val |-> 16909060] /\ st.after <= call.cap =>
       st.written = <<3, 0, 0, 8, 1, 2, 3, 4>>
\* the payload of the push p is one a tag can announce
C15_inRange(p) == p.push = "bytes" => 4 + p.n <= 16777215

\* C15 as stated: for every id in 0..127 and payload p, push_bytes(id, p) into
\* a buffer with enough room followed by Blob::from_bytes at the position where
\* the push started yields a blob with that id, data equal to p and no name,
\* and the builder's length grows by exactly 4 + len(p) rounded up to a
\* multiple of 4; push_u32(3, 0x01020304) writes 03 00 00 08 01 02 03 04.
C15_PushParseRoundTrip ==
  Called("build") /\ pc # "panicked" =>
    \A i \in 1..Len(call.pushes) :
      call.pushes[i].id \in 0..127 /\ C15_room(call.pushes[i], result.steps[i].before) =>
        C15_roundTrip(call.pushes[i], result.steps[i])

\* C15 amended: the same for every payload p of at most 16777211 bytes, the
\* longest a tag's 24-bit size can announce.
C15_PushParseRoundTripInRange ==
  Called("build") /\ pc # "panicked" =>
    \A i \in 1..Len(call.pushes) :
      /\ call.pushes[i].id \in 0..127
      /\ C15_inRange(call.pushes[i])
      /\ C15_room(call.pushes[i], result.steps[i].before)
      => C15_roundTrip(call.pushes[i], result.steps[i])

\* a 5-byte payload pushed behind an earlier blob and read back from there
C15_Witness ==
  /\ Called("build")
  /\ Len(call.pushes) = 2
  /\ call.pushes[2] = [push |-> "bytes", id |-> 127, n |-> 5]
  /\ result.steps[2].kind = "ok"
  /\ result.steps[2].before = 8
  /\ result.steps[2].after = 20
  /\ result.steps[2].blob = Ok([tag |-> 127 * 16777216 + 9, data |-> Payload(5), name |-> None])

\* every push succeeded and the region &buffer[..len()] exists
C16_laidOut ==
  /\ result.kind = "ok"
  /\ result.len <= call.cap
  /\ \A i \in 1..Len(result.steps) : result.steps[i].kind = "ok"

\* C16: for any sequence of blobs laid out back to back on 4-byte alignment
\* (as produced by successive BlobBuilder pushes), BlobIter over exactly that
\* byte region yields every blob once, in the order written, and then reports
\* end-of-sequence with no bytes left over.
C16_IterYieldsAllInOrder ==
  Called("build") /\ C16_laidOut =>
    /\ result.iter.kind = "none"
    /\ result.iter.rest = <<>>
    /\ Len(result.iter.items) = Len(call.pushes)
    /\ \A i \in 1..Len(call.pushes) : C15_blob(result.iter.items[i], call.pushes[i])

\* two blobs, the first with a payload that needs padding, iterated
C16_Witness ==
  /\ Called("build")
  /\ C16_laidOut
  /\ Len(call.pushes) = 2
  /\ call.pushes[1] = [push |-> "bytes", id |-> 3, n |-> 5]
  /\ call.pushes[2] = [push |-> "bytes", id |-> 127, n |-> 0]
  /\ Len(result.iter.items) = 2
  /\ result.len = 16

\* C17: BlobIter never crashes a consumer: for every byte region, including
\* one whose tail holds fewer than 4 bytes, a tag with size below 4, a tag
\* declaring more bytes than remain, or a last blob whose size is not a
\* multiple of 4 and is not followed by its padding bytes, each call to next()
\* returns either a blob or end-of-sequence and never aborts.
C17_IterNeverAborts ==
  Called("iter") => result.kind = "none" /\ pc # "panicked"

\* the big-endian value of 1, 2, 4 or 8 bytes: a 32-bit value as the word with
\* its bits, a 64-bit value as its two words
C18_word(b) == (((IF b[1] >= 128 THEN b[1] - 256 ELSE b[1]) * 256 + b[2]) * 256 + b[3]) * 256 + b[4]
C18_value(b, signed) ==
  CASE Len(b) = 1 -> IF signed /\ b[1] >= 128 THEN b[1] - 256 ELSE b[1]
    [] Len(b) = 2 -> IF signed /\ b[1] >= 128 THEN b[1] * 256 + b[2] - 65536 ELSE b[1] * 256 + b[2]
    [] Len(b) = 4 -> C18_word(b)
    [] Len(b) = 8 -> <<C18_word(SubSeq(b, 1, 4)), C18_word(SubSeq(b, 5, 8))>>
C18_extracted(data, w, signed) ==
  IF Len(data) >= w THEN result = Ok(C18_value(SubSeq(data, 1, w), signed))
  ELSE result.kind = "err" /\ result.err = "InvalidData"

\* C18: integer extraction from a blob of width w in {1, 2, 4, 8} bytes, signed
\* or unsigned, returns the big-endian value of the data bytes when the blob's
\* data holds at least w bytes, and fails with an InvalidData error value (not
\* an abort) whenever the data is shorter than w.
C18_IntegerExtraction ==
  Called("convert") /\ call.into.t = "number" =>
    C18_extracted(call.src[1].data, call.into.size, call.into.signed)

\* the payload of the blob at the front of bytes, and the name length in it
C19_inner(bytes) == SubSeq(bytes, 5, C13_size(bytes))
C19_nameLen(inner) == inner[1] * 256 + inner[2]
\* the payload is short, its name runs past it, is not terminated by 0x00 or
\* is not UTF-8
C19_malformed(inner) ==
  \/ Len(inner) < 3
  \/ 2 + C19_nameLen(inner) + 1 > Len(inner)
  \/ inner[2 + C19_nameLen(inner) + 1] # 0
  \/ ~IsUtf8(SubSeq(inner, 3, 2 + C19_nameLen(inner)))
\* the blob parsed has the name and the data the payload was laid out from
C19_parsed(blob, src, inner) ==
  /\ blob.name = src.name
  /\ blob.data = src.data
  /\ Len(blob.data) = Len(inner) - (2 + Len(src.name[1]) + 1 + WirePad(2 + Len(src.name[1]) + 1))

\* C19: parsing an extended blob is total: a well-formed payload (2-byte
\* big-endian name_len, the name, a 0x00 terminator, padding to a multiple of
\* 4) yields the name and as data the remaining inner_length - (2 + name_len +
\* 1 + padding) bytes; an inner length below 3, a name_len past the payload, a
\* terminator that is not 0x00 or a name that is not UTF-8 gives an error
\* value; nothing aborts.
C19_ExtendedParseTotal ==
  Called("convert") /\ call.into.t = "Blob" =>
    /\ result.kind # "panic"
    /\ call.src # None =>
         result.kind = "ok" /\ C19_parsed(result.val, call.src[1], C19_inner(call.bytes))
    /\ call.src = None /\ C19_malformed(C19_inner(call.bytes)) => result.kind = "err"

\* the data of the blob-message the blob id stands for
C20_string(data) == IF data # <<>> /\ data[Len(data)] = 0 THEN SubSeq(data, 1, Len(data) - 1) ELSE data
C20_expected(id, data) ==
  CASE id = 1 -> Attr("Array", data)
    [] id = 2 -> Attr("Table", data)
    [] id = 3 -> Attr("String", C20_string(data))
    [] id = 4 -> Attr("Int64", C18_value(SubSeq(data, 1, 8), TRUE))
    [] id = 5 -> Attr("Int32", C18_value(SubSeq(data, 1, 4), TRUE))
    [] id = 6 -> Attr("Int16", C18_value(SubSeq(data, 1, 2), TRUE))
    [] id = 7 -> Attr("Int8", C18_value(SubSeq(data, 1, 1), TRUE))
    [] id = 8 -> Attr("Double", C18_value(SubSeq(data, 1, 8), FALSE))
    [] OTHER -> Attr("Unknown", <<id, data>>)

\* C20: blob-message decoding dispatches on the blob id for every id in
\* 0..127: 1 gives Array, 2 Table, 3 String, 4 Int64, 5 Int32, 6 Int16, 7 Int8,
\* 8 Double (the 8 data bytes read as a big-endian f64, held here as their two
\* words), and every other id gives Unknown(id, raw data); the blob's name is
\* carried over unchanged.
C20_BlobMsgDispatch ==
  Called("convert") /\ call.into.t = "BlobMsg" =>
    /\ result.kind = "ok"
    /\ result.val.name = call.src[1].name
    /\ result.val.data = C20_expected(call.src[1].id, call.src[1].data)

(***************************************************************************)
(* Properties of the builders                                              *)
(***************************************************************************)
\* the wire id of each attribute kind (src/src/message.rs:25-40)
C21_wireId(t) ==
  CASE t = "Status" -> 1 [] t = "ObjPath" -> 2 [] t = "ObjId" -> 3 [] t = "Method" -> 4
    [] t = "ObjType" -> 5 [] t = "Data" -> 7 [] t = "Target" -> 8 [] t = "Active" -> 9
    [] t = "NoReply" -> 10 [] t = "User" -> 12 [] t = "Group" -> 13

\* C21: a successful MessageBuilder::put of an attribute of any of the eleven
\* kinds writes a blob under the kind's wire id, and that blob decoded as a
\* MessageAttr is the attribute put: the same kind with the same value.
C21_PutDecodeRoundTrip ==
  Called("put") /\ result.kind = "ok" =>
    /\ result.id = C21_wireId(call.attr.t)
    /\ result.attr = Ok(call.attr)

\* the bytes a push hands to push_bytes
C22_payload(p) ==
  CASE p.push = "bytes" -> p.n
    [] p.push = "u32" -> 4
    [] p.push = "bool" -> 1
    [] p.push = "str" -> Len(p.str) + 1
\* tag, payload and alignment padding of a push
C22_needed(p) == TAG_SIZE + C22_payload(p) + WirePad(TAG_SIZE + C22_payload(p))

\* C22: a push fails with InvalidData whenever tag, payload and padding do
\* not fit in what is left of the buffer, a failed push leaves len() where it
\* was, no push aborts, and len() never exceeds the length of the buffer.
C22_PushStaysInBuffer ==
  Called("build") =>
    /\ result.kind = "ok"
    /\ result.len <= call.cap
    /\ \A i \in 1..Len(result.steps) :
         /\ C22_needed(call.pushes[i]) > call.cap - result.steps[i].before => result.steps[i].kind = "err"
         /\ result.steps[i].kind = "err" => result.steps[i].after = result.steps[i].before

\* the payload put writes for an attribute: a big-endian word, a string and
\* its NUL, or the bytes given
C23_payload(a) ==
  CASE a.t \in {"Status", "ObjId", "ObjType", "Target"} -> ToBE32(a.val)
    [] a.t \in {"ObjPath", "Method", "User", "Group"} -> a.val \o <<0>>
    [] a.t = "Data" -> a.val
\* the attribute blobs expected on the wire, and their total padded size
C23_blobs(attrs) == [j \in 1..Len(attrs) |-> [id |-> C21_wireId(attrs[j].t), payload |-> C23_payload(attrs[j])]]
RECURSIVE C23_padded(_)
C23_padded(blobs) ==
  IF blobs = <<>> THEN 0
  ELSE TAG_SIZE + Len(blobs[1].payload) + WirePad(Len(blobs[1].payload)) + C23_padded(Tail(blobs))
\* the slice s is the frame of this header and these attributes
C23_frame(s, header, attrs) ==
  /\ Len(s) = HEADER_SIZE + TAG_SIZE + C23_padded(C23_blobs(attrs))
  /\ WireHeader(s) = header
  /\ s[9] = 0
  /\ WireSize(s) = TAG_SIZE + C23_padded(C23_blobs(attrs))
  /\ WireAttrs(SubSeq(s, HEADER_SIZE + TAG_SIZE + 1, Len(s))) = C23_blobs(attrs)
\* Message::from_io took the whole slice and gave this header and these attributes
C23_readBack(read, s, header, attrs) ==
  /\ read.res.kind = "ok"
  /\ read.nread = Len(s)
  /\ read.rest = <<>>
  /\ read.res.val.header = header
  /\ tag_id(read.res.val.blob.tag) = 0
  /\ read.attrs.kind = "none"
  /\ Len(read.attrs.items) = Len(attrs)
  /\ \A j \in 1..Len(attrs) : read.attrs.items[j].t = attrs[j].t /\ read.attrs.items[j].val = attrs[j].val

\* C23: after MessageBuilder::new and puts that all succeeded, finish returns
\* a slice: the 8 header bytes, an outer tag of id 0 whose size is 4 plus the
\* padded sizes of the attributes, the attribute blobs in put order, 8 + size
\* bytes in all; and Message::from_io on the slice gives the same header and
\* the attributes in put order.
C23_FinishFramesPuts ==
  Called("message") /\ result.built.kind = "ok" =>
    /\ result.finish.kind = "ok"
    /\ C23_frame(result.finish.val, call.header, call.attrs)
    /\ C23_readBack(result.read, result.finish.val, call.header, call.attrs)
====
